---- MODULE Spec2Model ----
(***************************************************************************)
(* Model of the signal-processing core of Signal-Equalizer:               *)
(*   utils/utils.ts      complex arithmetic, memoized bit reversal and     *)
(*                       zero buffers                                      *)
(*   utils/fft.ts        fft / ifft                                        *)
(*   utils/equalizer.ts  createBinGainsFromRanges / equalizer              *)
(*   hooks/useAudioProcessor.tsx  computeSTFT, uploads, processing and     *)
(*                       playback                                          *)
(*   pages/Equalizer.tsx the generic-mode range list                       *)
(*   services/audioSeparationApi.ts  pollJobStatus                         *)
(*                                                                         *)
(* JavaScript arrays are sequences (index i of the code is i+1 here).      *)
(* Numbers are exact integers; the result of a division is a reduced       *)
(* fraction <<numerator, denominator>>.  The twiddle factors of transform  *)
(* lengths 1, 2 and 4 are the exact values 1, -1, i, -i.                   *)
(***************************************************************************)
EXTENDS Integers, Sequences, FiniteSets, TLC

VARIABLES
    memoizedReversal,     \* utils.ts: N -> bit-reversal table (absent key = undefined)
    memoizedZeroBuffers,  \* utils.ts: size -> zero array      (absent key = undefined)
    reversalComputed,     \* lengths whose table the current call computed (utils.ts 40-51 ran)
    op,                   \* the call that produced the current state
    arg,                  \* the argument of that call
    source,               \* the input of the fft whose output is being reshaped
    result,               \* what the call returned or threw
    frequencyRanges,      \* Equalizer.tsx 83: the generic-mode ranges
    sliderValues,         \* Equalizer.tsx 84: the gains shown by the sliders
    poll,                 \* audioSeparationApi.ts 123-149: where poll() is
    attempts,             \* audioSeparationApi.ts 121
    fetches,              \* the calls of getJobStatus made so far
    callbacks,            \* the callbacks invoked so far, in order
    storedComplexFFT,     \* useAudioProcessor.tsx 41 (module level)
    storedFFTData,        \* useAudioProcessor.tsx 42 (module level)
    audioFile,            \* useAudioProcessor.tsx 45-53: the state of the hook
    audioData,
    outputData,
    inputFFT,
    outputFFT,
    inputSlices,
    outputSlices,
    audioContextRef,      \* useAudioProcessor.tsx 55
    uploads,              \* the calls of handleFileUpload that are at an await
    processed,            \* the range lists processAudio was given since the last
                          \* upload finished, the latest last (at most two)
    isPlaying,            \* useAudioProcessor.tsx 54
    sourceNodeRef,        \* useAudioProcessor.tsx 56
    animationFrameRef,    \* useAudioProcessor.tsx 57
    sources               \* the buffer source nodes created so far, by what each does

playVars == <<isPlaying, sourceNodeRef, animationFrameRef, sources>>

hookVars ==
    <<storedComplexFFT, storedFFTData, audioFile, audioData, outputData, inputFFT,
      outputFFT, inputSlices, outputSlices, audioContextRef, uploads, processed>>

pageVars == <<frequencyRanges, sliderValues>>

pollVars == <<poll, attempts, fetches, callbacks>>

moduleVars ==
    <<memoizedReversal, memoizedZeroBuffers, reversalComputed, op, arg, source, result>>

appVars == <<pageVars, pollVars, hookVars, playVars>>

vars == <<moduleVars, appVars>>

(***************************************************************************)
(* Bounds of the model.                                                    *)
(***************************************************************************)
MaxLen == 4      \* array lengths 0..MaxLen
MaxVal == 1      \* sample values -MaxVal..MaxVal
MaxBins == 16    \* table sizes and gain-vector lengths 0..MaxBins
MaxHz == 4       \* band edges -1..MaxHz
MaxRate == 4     \* sample rates 1..MaxRate
MaxGain == 2     \* gains 0..MaxGain
MaxSignal == 5   \* lengths 0..MaxSignal of the signal computeSTFT frames
MaxFrame == 4    \* frame lengths 0..MaxFrame
MaxHop == 2      \* hops 0..MaxHop
MaxRanges == 5   \* at most MaxRanges ranges in the generic-mode list
MaxAttempts == 5 \* maxAttempts of pollJobStatus is 1..MaxAttempts
MaxUploads == 2  \* at most MaxUploads calls of handleFileUpload are at an await
MaxSources == 3  \* at most MaxSources buffer source nodes are created

(***************************************************************************)
(* Equalizer.tsx: the page as it is mounted.                               *)
(***************************************************************************)
\* Equalizer.tsx 73
defaultFrequencies == <<250, 1000, 16000>>

\* Equalizer.tsx 77-78: freq - 32, freq + 32
HalfWidth == 32

\* Equalizer.tsx 74-81
defaultRanges ==
    [i \in 1..Len(defaultFrequencies) |->
        [minFreq |-> defaultFrequencies[i] - HalfWidth,
         maxFreq |-> defaultFrequencies[i] + HalfWidth,
         gain |-> 1]]

\* Equalizer.tsx 83-86, generic mode
InitPage ==
    /\ frequencyRanges = defaultRanges
    /\ sliderValues = [i \in 1..Len(defaultRanges) |-> defaultRanges[i].gain]

\* pollJobStatus has not been called
InitPoll ==
    /\ poll = "idle"
    /\ attempts = 0
    /\ fetches = 0
    /\ callbacks = << >>

\* null
Null == [kind |-> "null"]

\* useAudioProcessor.tsx 41-55: the hook as it is mounted
InitHook ==
    /\ storedComplexFFT = Null
    /\ storedFFTData = Null
    /\ audioFile = Null
    /\ audioData = Null
    /\ outputData = Null
    /\ inputFFT = Null
    /\ outputFFT = Null
    /\ inputSlices = << >>
    /\ outputSlices = << >>
    /\ audioContextRef = Null
    /\ uploads = << >>
    /\ processed = << >>

\* useAudioProcessor.tsx 54-57: nothing plays
InitPlayback ==
    /\ isPlaying = FALSE
    /\ sourceNodeRef = Null
    /\ animationFrameRef = Null
    /\ sources = << >>

\* the state outside utils.ts when nothing has been done yet
InitApp == InitPage /\ InitPoll /\ InitHook /\ InitPlayback

(***************************************************************************)
(* JavaScript numbers.                                                     *)
(***************************************************************************)
NaN == 1000001          \* the value of -undefined, undefined * g, NaN + x, ...
Undefined == 1000002    \* a read past the end of an array, or a hole

IsNum(x) == x # NaN /\ x # Undefined

Mul(a, b) == IF IsNum(a) /\ IsNum(b) THEN a * b ELSE NaN
Plus(a, b) == IF IsNum(a) /\ IsNum(b) THEN a + b ELSE NaN
Minus(a, b) == IF IsNum(a) /\ IsNum(b) THEN a - b ELSE NaN
Neg(a) == IF IsNum(a) THEN 0 - a ELSE NaN

Abs(x) == IF x < 0 THEN 0 - x ELSE x
Max2(a, b) == IF a >= b THEN a ELSE b
Min2(a, b) == IF a <= b THEN a ELSE b

RECURSIVE GCD(_, _)
GCD(a, b) == IF b = 0 THEN a ELSE GCD(b, a % b)

\* val / N for N > 0: the exact quotient as a reduced fraction; NaN / N is NaN.
NaNFrac == <<0, 0>>
Frac(n, d) == LET g == GCD(Abs(n), d) IN <<n \div g, d \div g>>
Divide(val, N) == IF IsNum(val) THEN Frac(val, N) ELSE NaNFrac

\* a[i] and a[i] = v of a JavaScript array
Get(a, i) == IF i + 1 \in DOMAIN a THEN a[i + 1] ELSE Undefined
Put(a, i, v) ==
    [j \in 1..Max2(Len(a), i + 1) |->
        IF j = i + 1 THEN v ELSE IF j <= Len(a) THEN a[j] ELSE Undefined]

RECURSIVE Pow2(_)
Pow2(n) == IF n <= 0 THEN 1 ELSE 2 * Pow2(n - 1)

(***************************************************************************)
(* utils.ts: strings of binary digits, as sequences of characters.         *)
(***************************************************************************)
RECURSIVE ToString2(_)
ToString2(n) ==
    IF n < 0 THEN <<"-">> \o ToString2(0 - n)
    ELSE IF n < 2 THEN <<IF n = 0 THEN "0" ELSE "1">>
    ELSE ToString2(n \div 2) \o <<IF n % 2 = 0 THEN "0" ELSE "1">>

Repeat0(len) == [j \in 1..len |-> "0"]
Substring(s, start) == IF start >= Len(s) THEN << >> ELSE SubSeq(s, start + 1, Len(s))
Reverse(s) == [j \in 1..Len(s) |-> s[Len(s) + 1 - j]]

RECURSIVE ParseInt2(_)
ParseInt2(s) ==
    IF s = << >> THEN 0
    ELSE 2 * ParseInt2(SubSeq(s, 1, Len(s) - 1)) + (IF s[Len(s)] = "1" THEN 1 ELSE 0)

\* utils.ts 40-49: the table computed for N, a map from 0..N-1
ReversedMutSkipPad(n, templateBinary) == ParseInt2(Reverse(ToString2(n)))
Reversed(n, templateBinary) ==
    LET currBinary == ToString2(n)
        padded == Substring(templateBinary, Len(currBinary)) \o currBinary
    IN ParseInt2(Reverse(padded))

ReversalTable(N) ==
    LET maxBinaryLength == Len(ToString2(N - 1))
        templateBinary == Repeat0(maxBinaryLength)
    IN [n \in 0..(N - 1) |-> Reversed(n, templateBinary)]

\* utils.ts 38-54: the cache after bitReverseArray(N); the call returns its entry N
BitReverseMemoMutSingleEntry(N, memo) ==
    IF N \in DOMAIN memo THEN memo ELSE [key \in {N} |-> ReversalTable(N)]
BitReverseMemo(N, memo) ==
    IF N \in DOMAIN memo THEN memo
    ELSE [key \in DOMAIN memo \cup {N} |-> IF key = N THEN ReversalTable(N) ELSE memo[key]]

BitReverseComputes(N, memo) == IF N \in DOMAIN memo THEN {} ELSE {N}

\* utils.ts 28-30: the zero-buffer cache after constructComplexArray of bufferSize samples
ZeroBufferMemoMutSingleEntry(bufferSize, memo) ==
    IF bufferSize \in DOMAIN memo THEN memo
    ELSE [key \in {bufferSize} |-> [j \in 1..bufferSize |-> 0]]
ZeroBufferMemo(bufferSize, memo) ==
    IF bufferSize \in DOMAIN memo THEN memo
    ELSE [key \in DOMAIN memo \cup {bufferSize} |->
            IF key = bufferSize THEN [j \in 1..bufferSize |-> 0] ELSE memo[key]]

\* utils.ts 18-35
constructComplexArray(signal, zeroMemo) ==
    LET bufferSize == Len(signal.real)
    IN [real |-> signal.real, imag |-> ZeroBufferMemo(bufferSize, zeroMemo)[bufferSize]]

(***************************************************************************)
(* utils.ts: complex arithmetic.                                           *)
(***************************************************************************)
multiply(a, b) ==
    [real |-> Minus(Mul(a.real, b.real), Mul(a.imag, b.imag)),
     imag |-> Plus(Mul(a.real, b.imag), Mul(a.imag, b.real))]

add(a, b) == [real |-> Plus(a.real, b.real), imag |-> Plus(a.imag, b.imag)]

subtract(a, b) == [real |-> Minus(a.real, b.real), imag |-> Minus(a.imag, b.imag)]

conj(a) == [real |-> a.real, imag |-> Neg(a.imag)]

\* e^(-2*pi*i*kn/N) where the angle is a multiple of pi/2 (every twiddle of N <= 4)
eulerMutPositive(kn, N) ==
    CASE (4 * kn) % N = 0 /\ ((4 * kn) \div N) % 4 = 0 -> [real |-> 1, imag |-> 0]
      [] (4 * kn) % N = 0 /\ ((4 * kn) \div N) % 4 = 1 -> [real |-> 0, imag |-> 1]
      [] (4 * kn) % N = 0 /\ ((4 * kn) \div N) % 4 = 2 -> [real |-> 0 - 1, imag |-> 0]
      [] (4 * kn) % N = 0 /\ ((4 * kn) \div N) % 4 = 3 -> [real |-> 0, imag |-> 0 - 1]
euler(kn, N) ==
    CASE (4 * kn) % N = 0 /\ ((4 * kn) \div N) % 4 = 0 -> [real |-> 1, imag |-> 0]
      [] (4 * kn) % N = 0 /\ ((4 * kn) \div N) % 4 = 1 -> [real |-> 0, imag |-> 0 - 1]
      [] (4 * kn) % N = 0 /\ ((4 * kn) \div N) % 4 = 2 -> [real |-> 0 - 1, imag |-> 0]
      [] (4 * kn) % N = 0 /\ ((4 * kn) \div N) % 4 = 3 -> [real |-> 0, imag |-> 1]

(***************************************************************************)
(* fft.ts: the forward transform.                                          *)
(***************************************************************************)
\* fft.ts 30-32: Math.round(logN) === logN; Math.log2(0) is -Infinity, which
\* Math.round leaves unchanged
Log2IsInteger(N) == \E e \in 0..N : Pow2(e) = N
RoundedLogEqualsLog(N) == N = 0 \/ Log2IsInteger(N)

\* the number of passes of the loop of fft.ts 57: none when logN is -Infinity
Stages(N) == IF N = 0 THEN 0 ELSE CHOOSE e \in 0..N : Pow2(e) = N

\* fft.ts 41-54: ordered[bitReversedIndices[i]] = x[i] for i = 0..N-1 in turn, then
\* the first N entries of ordered are copied back
Reorder(x, rev, N) ==
    [j \in 1..N |->
        LET writers == {i \in 0..(N - 1) : rev[i] = j - 1}
        IN IF writers = {} THEN Undefined
           ELSE Get(x, CHOOSE i \in writers : \A i2 \in writers : i2 <= i)]

\* fft.ts 69-76: the sample at one index
Sample(cs, index) == [real |-> Get(cs.real, index), imag |-> Get(cs.imag, index)]

\* fft.ts 69-86: the accesses of one butterfly to complexSignal, in the order of the
\* code, added to those of the current stage.  cs.log holds, for each stage begun,
\* the accesses <<"read" or "write", index>> made in it.
Logged(log, currEvenIndex, currOddIndex) ==
    [log EXCEPT ![Len(log)] =
        @ \o << <<"read", currEvenIndex>>, <<"read", currOddIndex>>,
                <<"write", currOddIndex>>, <<"write", currEvenIndex>> >>]

\* fft.ts 81-86 with the sum at the odd index and the difference at the even index
WriteBackMutSwapped(cs, currEvenIndex, currOddIndex, subtractionResult, additionResult) ==
    [real |-> Put(Put(cs.real, currOddIndex, additionResult.real),
                  currEvenIndex, subtractionResult.real),
     imag |-> Put(Put(cs.imag, currOddIndex, additionResult.imag),
                  currEvenIndex, subtractionResult.imag),
     log |-> Logged(cs.log, currEvenIndex, currOddIndex)]

\* fft.ts 81-86: the difference goes to the odd index, then the sum to the even index
WriteBack(cs, currEvenIndex, currOddIndex, subtractionResult, additionResult) ==
    [real |-> Put(Put(cs.real, currOddIndex, subtractionResult.real),
                  currEvenIndex, additionResult.real),
     imag |-> Put(Put(cs.imag, currOddIndex, subtractionResult.imag),
                  currEvenIndex, additionResult.imag),
     log |-> Logged(cs.log, currEvenIndex, currOddIndex)]

\* fft.ts 78-86
Combine(cs, currEvenIndex, currOddIndex, currEvenIndexSample, odd) ==
    WriteBack(cs, currEvenIndex, currOddIndex,
              subtract(currEvenIndexSample, odd), add(odd, currEvenIndexSample))

\* fft.ts 66-86: one butterfly
Butterfly(cs, currN, k, m) ==
    Combine(cs, currN * m + k, currN * m + k + currN \div 2,
            Sample(cs, currN * m + k),
            multiply(euler(k, currN), Sample(cs, currN * m + k + currN \div 2)))

\* fft.ts 65-87 with one block more
RECURSIVE BlockLoopMutExtraBlock(_, _, _, _, _)
BlockLoopMutExtraBlock(cs, N, currN, k, m) ==
    IF m <= N \div currN
    THEN BlockLoopMutExtraBlock(Butterfly(cs, currN, k, m), N, currN, k, m + 1)
    ELSE cs

\* fft.ts 65-87: for (m = 0; m < N / currN; m++)
RECURSIVE BlockLoop(_, _, _, _, _)
BlockLoop(cs, N, currN, k, m) ==
    IF m < N \div currN THEN BlockLoop(Butterfly(cs, currN, k, m), N, currN, k, m + 1)
    ELSE cs

\* fft.ts 61-88: for (k = 0; k < currN / 2; k++)
RECURSIVE TwiddleLoop(_, _, _, _)
TwiddleLoop(cs, N, currN, k) ==
    IF k < currN \div 2 THEN TwiddleLoop(BlockLoop(cs, N, currN, k, 0), N, currN, k + 1)
    ELSE cs

\* fft.ts 57-58: a stage begins
Staged(cs) == [cs EXCEPT !.log = Append(@, << >>)]

\* fft.ts 57-89: for (n = 1; n <= logN; n++)
RECURSIVE StageLoop(_, _, _, _)
StageLoop(cs, N, logN, n) ==
    IF n <= logN
    THEN StageLoop(TwiddleLoop(Staged(cs), N, Pow2(n), 0), N, logN, n + 1)
    ELSE cs

\* a call that throws: no value, the caches as they are at the throw
Thrown(status, rev, zero) ==
    [status |-> status, real |-> << >>, imag |-> << >>, log |-> << >>,
     rev |-> rev, zero |-> zero, computed |-> {}]

\* fft.ts 91: the returned sequence, with the caches as the call leaves them
Returned(out, rev, zero, computed) ==
    [status |-> "ok", real |-> out.real, imag |-> out.imag, log |-> out.log,
     rev |-> rev, zero |-> zero, computed |-> computed]

\* fft.ts 41-54
Ordered(complexSignal, bitReversedIndices, N) ==
    [real |-> Reorder(complexSignal.real, bitReversedIndices, N),
     imag |-> Reorder(complexSignal.imag, bitReversedIndices, N),
     log |-> << >>]

\* fft.ts 38-91, with rev2 the cache after bitReverseArray(N)
Transform(complexSignal, N, rev2, zero, computed) ==
    Returned(StageLoop(Ordered(complexSignal, rev2[N], N), N, Stages(N), 1),
             rev2, zero, computed)

\* fft.ts 29-91
CheckedTransformMutNoMismatchCheck(complexSignal, rev, zero) ==
    IF ~RoundedLogEqualsLog(Len(complexSignal.real))
    THEN Thrown("InvalidLength", rev, zero)
    ELSE Transform(complexSignal, Len(complexSignal.real),
                   BitReverseMemo(Len(complexSignal.real), rev), zero,
                   BitReverseComputes(Len(complexSignal.real), rev))
CheckedTransform(complexSignal, rev, zero) ==
    IF ~RoundedLogEqualsLog(Len(complexSignal.real))
    THEN Thrown("InvalidLength", rev, zero)
    ELSE IF Len(complexSignal.real) # Len(complexSignal.imag)
    THEN Thrown("LengthMismatch", rev, zero)
    ELSE Transform(complexSignal, Len(complexSignal.real),
                   BitReverseMemo(Len(complexSignal.real), rev), zero,
                   BitReverseComputes(Len(complexSignal.real), rev))

\* fft.ts 19-27.  signal.kind is "array" for a number[] (its samples in signal.real)
\* and "complex" for an object with real and imag.
ComplexSignal(signal, zero) ==
    IF signal.kind = "array" THEN constructComplexArray(signal, zero)
    ELSE [real |-> signal.real, imag |-> signal.imag]

\* The arrays a function writes into are either copies it made ("copy") or the
\* arrays of the object it was passed ("input").
\* fft.ts 20-26, utils.ts 18-32: complexSignal holds slice()s of the input's arrays
ComplexSignalArraysMutNoSlice(signal) ==
    [real |-> "input", imag |-> IF signal.kind = "array" THEN "copy" ELSE "input"]
ComplexSignalArrays(signal) == [real |-> "copy", imag |-> "copy"]

\* the object a function was passed, as the call leaves it: an array of the object
\* that the function wrote into holds what was written
InputAfter(signal, arrays, written, wrote) ==
    [real |-> IF wrote /\ arrays.real = "input" THEN written.real ELSE signal.real,
     imag |-> IF wrote /\ arrays.imag = "input" THEN written.imag ELSE signal.imag]

\* an outcome together with the caller's object as the call leaves it
WithInput(out, input) ==
    [f \in DOMAIN out \cup {"input"} |-> IF f = "input" THEN input ELSE out[f]]

\* fft.ts 51-89 write complexSignal in place, after the two checks
Observed(signal, arrays, out) ==
    WithInput(out, InputAfter(signal, arrays, out, out.status = "ok"))

\* utils.ts 32: the imaginary part handed out is a slice() of the memoized zero
\* buffer ("copy"), not the buffer itself ("memo")
ZeroBufferArrayMutNoSlice == "memo"
ZeroBufferArray == "copy"

\* the zero-buffer cache as a call leaves it: a memoized buffer that the function
\* wrote into holds what was written
ZeroBufferAfter(signal, array, out) ==
    IF signal.kind = "array" /\ array = "memo" /\ out.status = "ok"
    THEN [out EXCEPT !.zero = [@ EXCEPT ![Len(signal.real)] = out.imag]]
    ELSE out

\* fft.ts 16-92.  The outcome carries the two caches as the call leaves them.
fft(signal, rev, zero) ==
    ZeroBufferAfter(signal, ZeroBufferArray,
        Observed(signal, ComplexSignalArrays(signal),
                 CheckedTransform(ComplexSignal(signal, zero), rev,
                                  IF signal.kind = "array"
                                  THEN ZeroBufferMemo(Len(signal.real), zero) ELSE zero)))

(***************************************************************************)
(* fft.ts: the inverse transform.                                          *)
(***************************************************************************)
\* fft.ts 104-113: the conjugate of the first N = signal.real.length samples
Conjugated(signal) ==
    [kind |-> "complex",
     real |-> [j \in 1..Len(signal.real) |-> conj(Sample(signal, j - 1)).real],
     imag |-> [j \in 1..Len(signal.real) |-> conj(Sample(signal, j - 1)).imag]]

\* fft.ts 119-122
NormalizedMutNoDivide(X, N) ==
    IF X.status # "ok" THEN X
    ELSE [X EXCEPT !.real = [j \in 1..Len(X.real) |-> Divide(X.real[j], 1)],
                   !.imag = [j \in 1..Len(X.imag) |-> Divide(X.imag[j], 1)]]
Normalized(X, N) ==
    IF X.status # "ok" THEN X
    ELSE [X EXCEPT !.real = [j \in 1..Len(X.real) |-> Divide(X.real[j], N)],
                   !.imag = [j \in 1..Len(X.imag) |-> Divide(X.imag[j], N)]]

\* fft.ts 101: complexSignal = { real: [], imag: [] }, filled by the loop 104-113
ConjugatedArrays == [real |-> "copy", imag |-> "copy"]

\* fft.ts 95-123
ifft(signal, rev, zero) ==
    WithInput(IF signal.kind = "array" THEN Thrown("ComplexOnly", rev, zero)
              ELSE Normalized(fft(Conjugated(signal), rev, zero), Len(signal.real)),
              InputAfter(signal, ConjugatedArrays, Conjugated(signal),
                         signal.kind # "array"))

(***************************************************************************)
(* equalizer.ts: band-to-bin gains and the reshaper.                       *)
(* A band is <<minFreq, maxFreq, gain>>; frequencies, rates and gains are  *)
(* integers, the default gain 1.0 is 1.                                    *)
(***************************************************************************)
Floor(a, b) == a \div b                 \* Math.floor(a / b), b > 0
Ceil(a, b) == 0 - ((0 - a) \div b)      \* Math.ceil(a / b), b > 0

\* equalizer.ts 158-159
BinMin(minFreq, fftSize, sampleRate) == Max2(0, Floor(minFreq * fftSize, sampleRate))
BinMaxMutNoClamp(maxFreq, fftSize, sampleRate) == Ceil(maxFreq * fftSize, sampleRate)
BinMax(maxFreq, fftSize, sampleRate) == Min2(fftSize - 1, Ceil(maxFreq * fftSize, sampleRate))

\* equalizer.ts 165-169: one pass of the loop over bin
SetBinMutNoMirror(binGains, fftSize, bin, gain) == Put(binGains, bin, gain)
SetBin(binGains, fftSize, bin, gain) ==
    IF bin > 0 /\ 2 * bin < fftSize
    THEN Put(Put(binGains, bin, gain), fftSize - bin, gain)
    ELSE Put(binGains, bin, gain)

\* equalizer.ts 164-170 with the loop stopping before binMax
RECURSIVE BinLoopMutExclusive(_, _, _, _, _)
BinLoopMutExclusive(binGains, fftSize, bin, binMax, gain) ==
    IF bin < binMax
    THEN BinLoopMutExclusive(SetBin(binGains, fftSize, bin, gain), fftSize,
                             bin + 1, binMax, gain)
    ELSE binGains

\* equalizer.ts 164-170: for (bin = binMin; bin <= binMax; bin++)
RECURSIVE BinLoop(_, _, _, _, _)
BinLoop(binGains, fftSize, bin, binMax, gain) ==
    IF bin <= binMax
    THEN BinLoop(SetBin(binGains, fftSize, bin, gain), fftSize, bin + 1, binMax, gain)
    ELSE binGains

\* equalizer.ts 158-174: one band <<minFreq, maxFreq, gain>>
ApplyBand(binGains, fftSize, band, sampleRate) ==
    IF BinMin(band[1], fftSize, sampleRate) <= BinMax(band[2], fftSize, sampleRate)
    THEN BinLoop(binGains, fftSize, BinMin(band[1], fftSize, sampleRate),
                 BinMax(band[2], fftSize, sampleRate), band[3])
    ELSE binGains

\* equalizer.ts 156-175 with the bands taken from the last to the first
RECURSIVE BandLoopMutReversed(_, _, _, _, _)
BandLoopMutReversed(binGains, fftSize, rangeControlsHz, sampleRate, idx) ==
    IF idx > Len(rangeControlsHz) THEN binGains
    ELSE BandLoopMutReversed(
             ApplyBand(binGains, fftSize,
                       rangeControlsHz[Len(rangeControlsHz) + 1 - idx], sampleRate),
             fftSize, rangeControlsHz, sampleRate, idx + 1)

\* equalizer.ts 156-175: for (const [minFreq, maxFreq, gain] of rangeControlsHz)
RECURSIVE BandLoop(_, _, _, _, _)
BandLoop(binGains, fftSize, rangeControlsHz, sampleRate, idx) ==
    IF idx > Len(rangeControlsHz) THEN binGains
    ELSE BandLoop(ApplyBand(binGains, fftSize, rangeControlsHz[idx], sampleRate),
                  fftSize, rangeControlsHz, sampleRate, idx + 1)

\* equalizer.ts 146-178
createBinGainsFromRanges(fftSize, rangeControlsHz, sampleRate) ==
    BandLoop([j \in 1..fftSize |-> 1], fftSize, rangeControlsHz, sampleRate, 1)

\* equalizer.ts 186: gainControlsHz.map(([freq, gain]) => [freq, freq, gain])
RangeControls(gainControlsHz) ==
    [j \in 1..Len(gainControlsHz) |->
        <<gainControlsHz[j][1], gainControlsHz[j][1], gainControlsHz[j][2]>>]

\* equalizer.ts 181-188; a control is <<freq, gain>>
createBinGains(fftSize, gainControlsHz, sampleRate) ==
    createBinGainsFromRanges(fftSize, RangeControls(gainControlsHz), sampleRate)

\* equalizer.ts 110-131 with the gain applied to the real component only
FrequencyDomainMutRealOnly(fftOutput, binGains) ==
    [kind |-> "complex",
     real |-> [j \in 1..Len(fftOutput.real) |->
                 Mul(fftOutput.real[j], Get(binGains, j - 1))],
     imag |-> [j \in 1..Max2(Len(fftOutput.real), Len(fftOutput.imag)) |->
                 IF j <= Len(fftOutput.real) THEN Get(fftOutput.imag, j - 1)
                 ELSE Undefined]]

\* equalizer.ts 110-131: both arrays are allocated at the lengths of the input's
\* arrays and filled for i < fftOutput.real.length
FrequencyDomain(fftOutput, binGains) ==
    [kind |-> "complex",
     real |-> [j \in 1..Len(fftOutput.real) |->
                 Mul(fftOutput.real[j], Get(binGains, j - 1))],
     imag |-> [j \in 1..Max2(Len(fftOutput.real), Len(fftOutput.imag)) |->
                 IF j <= Len(fftOutput.real)
                 THEN Mul(Get(fftOutput.imag, j - 1), Get(binGains, j - 1))
                 ELSE Undefined]]

\* equalizer.ts 140-143
Equalized(frequencyDomain, equalizedSignal) ==
    IF equalizedSignal.status # "ok"
    THEN [status |-> equalizedSignal.status, timeDomain |-> << >>,
          frequencyDomain |-> [real |-> << >>, imag |-> << >>],
          rev |-> equalizedSignal.rev, zero |-> equalizedSignal.zero,
          computed |-> equalizedSignal.computed]
    ELSE [status |-> "ok", timeDomain |-> equalizedSignal.real,
          frequencyDomain |-> [real |-> frequencyDomain.real,
                               imag |-> frequencyDomain.imag],
          rev |-> equalizedSignal.rev, zero |-> equalizedSignal.zero,
          computed |-> equalizedSignal.computed]

\* equalizer.ts 135-143
Reconstructed(frequencyDomain, rev, zero) ==
    Equalized(frequencyDomain, ifft(frequencyDomain, rev, zero))

\* equalizer.ts 110-113: frequencyDomain holds two new arrays, filled by the loop
\* 119-131
FrequencyDomainArraysMutInPlace == [real |-> "input", imag |-> "input"]
FrequencyDomainArrays == [real |-> "copy", imag |-> "copy"]

\* equalizer.ts 86-144
equalizer(fftOutput, rangeControlsHz, sampleRate, rev, zero) ==
    WithInput(
        Reconstructed(
            FrequencyDomain(fftOutput,
                createBinGainsFromRanges(Len(fftOutput.real), rangeControlsHz, sampleRate)),
            rev, zero),
        InputAfter(fftOutput, FrequencyDomainArrays,
            FrequencyDomain(fftOutput,
                createBinGainsFromRanges(Len(fftOutput.real), rangeControlsHz, sampleRate)),
            TRUE))

(***************************************************************************)
(* The calls, as actions on the module state.                              *)
(***************************************************************************)
NoResult == [status |-> "none"]
NoSource == [kind |-> "none"]
EmptyMemo == << >>

\* what the caller sees of an outcome
Value(out) == [f \in DOMAIN out \ {"rev", "zero", "computed"} |-> out[f]]

\* the state after a call of a function of fft.ts or equalizer.ts
Call(name, a, src, out) ==
    /\ op' = name
    /\ arg' = a
    /\ source' = src
    /\ result' = Value(out)
    /\ memoizedReversal' = out.rev
    /\ memoizedZeroBuffers' = out.zero
    /\ reversalComputed' = out.computed
    /\ UNCHANGED appVars

\* fft(s)
Fft(s) == Call("fft", s, NoSource, fft(s, memoizedReversal, memoizedZeroBuffers))

\* ifft(s)
Ifft(s) == Call("ifft", s, NoSource, ifft(s, memoizedReversal, memoizedZeroBuffers))

\* bitReverseArray(N)
BitReverseArray(N) ==
    /\ op' = "bitReverseArray"
    /\ arg' = [kind |-> "length", N |-> N]
    /\ source' = NoSource
    /\ memoizedReversal' = BitReverseMemo(N, memoizedReversal)
    /\ result' = [status |-> "ok", table |-> memoizedReversal'[N]]
    /\ reversalComputed' = BitReverseComputes(N, memoizedReversal)
    /\ UNCHANGED memoizedZeroBuffers
    /\ UNCHANGED appVars

\* createBinGainsFromRanges(fftSize, bands, sampleRate)
CreateBinGainsFromRanges(fftSize, bands, sampleRate) ==
    /\ op' = "createBinGainsFromRanges"
    /\ arg' = [kind |-> "bands", fftSize |-> fftSize, bands |-> bands,
               sampleRate |-> sampleRate]
    /\ source' = NoSource
    /\ result' = [status |-> "ok",
                  binGains |-> createBinGainsFromRanges(fftSize, bands, sampleRate)]
    /\ reversalComputed' = {}
    /\ UNCHANGED <<memoizedReversal, memoizedZeroBuffers>>
    /\ UNCHANGED appVars

CreateBinGains(fftSize, controls, sampleRate) ==
    /\ op' = "createBinGains"
    /\ arg' = [kind |-> "controls", fftSize |-> fftSize, controls |-> controls,
               sampleRate |-> sampleRate]
    /\ source' = NoSource
    /\ result' = [status |-> "ok",
                  binGains |-> createBinGains(fftSize, controls, sampleRate)]
    /\ reversalComputed' = {}
    /\ UNCHANGED <<memoizedReversal, memoizedZeroBuffers>>
    /\ UNCHANGED appVars

\* equalizer(X, bands, sampleRate); src is the signal X is the spectrum of, if known
Equalizer(X, bands, sampleRate, src) ==
    Call("equalizer",
         [kind |-> "spectrum", real |-> X.real, imag |-> X.imag,
          bands |-> bands, sampleRate |-> sampleRate],
         src,
         equalizer(X, bands, sampleRate, memoizedReversal, memoizedZeroBuffers))

(***************************************************************************)
(* Inputs.                                                                 *)
(***************************************************************************)
Lengths == 0..MaxLen
TransformLengths == {n \in Lengths : n = 0 \/ \E e \in 0..n : Pow2(e) = n}
ArrayVals == (0 - MaxVal)..MaxVal
RealVals == 0..MaxVal
ImagVals == {0, 1}
Ramp(n) == [j \in 1..n |-> j]

\* number[] inputs: every array of a length fft accepts, one array of every length
ArrayInputs ==
    {[kind |-> "array", real |-> r, imag |-> << >>] :
        r \in UNION {[1..n -> ArrayVals] : n \in TransformLengths}}
    \cup {[kind |-> "array", real |-> Ramp(n), imag |-> << >>] : n \in Lengths}

\* complex inputs: every sequence of a length fft accepts, one sequence for every
\* pair of lengths of real and imag
ComplexInputs ==
    UNION {{[kind |-> "complex", real |-> r, imag |-> i] :
                r \in [1..n -> RealVals], i \in [1..n -> ImagVals]} : n \in TransformLengths}
    \cup {[kind |-> "complex", real |-> Ramp(p[1]), imag |-> Ramp(p[2])] :
            p \in Lengths \X Lengths}

SignalInputs == ArrayInputs \cup ComplexInputs

LengthInputs == {[kind |-> "length", N |-> n] : n \in 0..MaxBins}

SampleRates == 1..MaxRate
Bands == {<<lo, hi, g>> : lo \in (0 - 1)..MaxHz, hi \in (0 - 1)..MaxHz, g \in 0..MaxGain}
BandLists == {<< >>} \cup {<<b>> : b \in Bands}

BandInputs ==
    {[kind |-> "bands", fftSize |-> n, bands |-> bs, sampleRate |-> fs] :
        n \in 0..MaxBins, bs \in BandLists, fs \in SampleRates}

GainControls == {<<f, g>> : f \in (0 - 1)..MaxHz, g \in 0..MaxGain}
GainControlLists == {<< >>} \cup {<<c>> : c \in GainControls}
GainControlInputs ==
    {[kind |-> "controls", fftSize |-> n, controls |-> cs, sampleRate |-> fs] :
        n \in 0..MaxBins, cs \in GainControlLists, fs \in SampleRates}

\* lists of two bands with minFreq <= maxFreq, for two sizes
OrderedBands == {b \in Bands : b[1] <= b[2]}
BandPairs == {<<a, b>> : a \in OrderedBands, b \in OrderedBands}
PairSizes == {5, 8}
PairRates == {3}
BandPairInputs ==
    {[kind |-> "bands", fftSize |-> n, bands |-> bs, sampleRate |-> fs] :
        n \in PairSizes, bs \in BandPairs, fs \in PairRates}

\* equalizer called directly: every complex input, a few band lists, one rate
EqBandLists ==
    {<< >>, << <<1, 1, 2>> >>, << <<0, 2, 0>> >>, << <<2, 3, 2>> >>,
     << <<0, 4, 2>>, <<1, 1, 0>> >>}
EqRates == {4}
SpectrumInputs ==
    {[kind |-> "spectrum", real |-> x.real, imag |-> x.imag,
      bands |-> bs, sampleRate |-> fs] :
        x \in ComplexInputs, bs \in EqBandLists, fs \in EqRates}

\* the full-range band (0, Fs/2, g) for the even sample rates
FullRangeLists(fs) == {<< >>} \cup {<< <<0, fs \div 2, g>> >> : g \in 0..MaxGain}
EvenRates == {fs \in SampleRates : fs % 2 = 0}

(***************************************************************************)
(* SpecFn: one call, or fft followed by a call on its output, in a fresh   *)
(* module instance, for every input.                                       *)
(***************************************************************************)
InitFn ==
    /\ memoizedReversal = EmptyMemo
    /\ memoizedZeroBuffers = EmptyMemo
    /\ reversalComputed = {}
    /\ op = "input"
    /\ \/ arg \in SignalInputs
       \/ arg \in LengthInputs
       \/ arg \in BandInputs
       \/ arg \in BandPairInputs
       \/ arg \in GainControlInputs
       \/ arg \in SpectrumInputs
    /\ source = NoSource
    /\ result = NoResult
    /\ InitApp

IsSignal(a) == a.kind \in {"array", "complex"}

FnFft == op = "input" /\ IsSignal(arg) /\ Fft(arg)

FnIfft == op = "input" /\ IsSignal(arg) /\ Ifft(arg)

FnBitReverseArray == op = "input" /\ arg.kind = "length" /\ BitReverseArray(arg.N)

FnCreateBinGainsFromRanges ==
    /\ op = "input"
    /\ arg.kind = "bands"
    /\ CreateBinGainsFromRanges(arg.fftSize, arg.bands, arg.sampleRate)

FnCreateBinGains ==
    /\ op = "input"
    /\ arg.kind = "controls"
    /\ CreateBinGains(arg.fftSize, arg.controls, arg.sampleRate)

FnEqualizer ==
    /\ op = "input"
    /\ arg.kind = "spectrum"
    /\ Equalizer([kind |-> "complex", real |-> arg.real, imag |-> arg.imag],
                 arg.bands, arg.sampleRate, NoSource)

\* the spectrum a successful fft returned, as the next call's argument
Spectrum == [kind |-> "complex", real |-> result.real, imag |-> result.imag]

\* ifft(fft(x))
FnIfftOfFft ==
    /\ op = "fft"
    /\ result.status = "ok"
    /\ Call("ifft", Spectrum, arg, ifft(Spectrum, memoizedReversal, memoizedZeroBuffers))

\* equalizer(fft(x), bands, Fs)
FnEqualizerOfFft ==
    /\ op = "fft"
    /\ result.status = "ok"
    /\ \E fs \in EvenRates : \E bs \in FullRangeLists(fs) : Equalizer(Spectrum, bs, fs, arg)

NextFn ==
    \/ FnFft
    \/ FnIfft
    \/ FnBitReverseArray
    \/ FnCreateBinGainsFromRanges
    \/ FnCreateBinGains
    \/ FnEqualizer
    \/ FnIfftOfFft
    \/ FnEqualizerOfFft

SpecFn == InitFn /\ [][NextFn]_vars

(***************************************************************************)
(* Spec: any sequence of calls on one module instance.                     *)
(***************************************************************************)
HistLens == {0, 3, 4}

HistSignals ==
    {[kind |-> "array", real |-> Ramp(n), imag |-> << >>] : n \in HistLens}
    \cup {[kind |-> "complex", real |-> Ramp(r), imag |-> Ramp(i)] :
            r \in HistLens, i \in HistLens}

HistComplex == {s \in HistSignals : s.kind = "complex"}
HistBandLists == {<< >>, << <<0, 1, 2>> >>}
HistRates == {2}

Init ==
    /\ memoizedReversal = EmptyMemo
    /\ memoizedZeroBuffers = EmptyMemo
    /\ reversalComputed = {}
    /\ op = "init"
    /\ arg = NoSource
    /\ source = NoSource
    /\ result = NoResult
    /\ InitApp

CallFft == \E s \in HistSignals : Fft(s)

CallIfft == \E s \in HistSignals : Ifft(s)

CallBitReverseArray == \E N \in HistLens : BitReverseArray(N)

CallCreateBinGainsFromRanges ==
    \E n \in HistLens : \E bs \in HistBandLists : \E fs \in HistRates :
        CreateBinGainsFromRanges(n, bs, fs)

CallEqualizer ==
    \E X \in HistComplex : \E bs \in HistBandLists : \E fs \in HistRates :
        Equalizer(X, bs, fs, NoSource)

Next ==
    \/ CallFft
    \/ CallIfft
    \/ CallBitReverseArray
    \/ CallCreateBinGainsFromRanges
    \/ CallEqualizer

Spec == Init /\ [][Next]_vars

(***************************************************************************)
(* useAudioProcessor.tsx: computeSTFT(data, fftSize, hopSize).             *)
(* The window is carried times 4 and a magnitude as its square, so the     *)
(* numbers stay integers: result.maxMag and result.mags hold               *)
(* (4 * Math.hypot(re, im))^2.  Every such magnitude is 0 or at least 1/4, *)
(* so the floor 1e-12 of maxMag is the value 0 here.                       *)
(***************************************************************************)
\* 2 * Math.cos(2 * Math.PI * i / n) for n = 1..4
TwoCos(i, n) ==
    CASE n = 1 -> 2
      [] n = 2 -> IF i % 2 = 0 THEN 2 ELSE 0 - 2
      [] n = 3 -> IF i % 3 = 0 THEN 2 ELSE 0 - 1
      [] n = 4 -> CASE i % 4 = 0 -> 2 [] i % 4 = 2 -> 0 - 2 [] OTHER -> 0

\* useAudioProcessor.tsx 91-93: 4 * 0.5 * (1 - cos(2*pi*i / (fftSize - 1))); for
\* fftSize = 1 the angle is 0 / 0
HannTimes4(i, fftSize) == IF fftSize = 1 THEN NaN ELSE 2 - TwoCos(i, fftSize - 1)

hannWindow(fftSize) == [i \in 1..fftSize |-> HannTimes4(i - 1, fftSize)]

\* useAudioProcessor.tsx 98-103: the frame at start, windowed, as fft's argument
Windowed(data, start, fftSize) ==
    [kind |-> "complex",
     real |-> [i \in 1..fftSize |-> Mul(data[start + i], hannWindow(fftSize)[i])],
     imag |-> [i \in 1..fftSize |-> 0]]

\* useAudioProcessor.tsx 104, 116: Math.hypot(complexFFT.real[j], complexFFT.imag[j])
Hypot2(complexFFT, j) ==
    Plus(Mul(Get(complexFFT.real, j), Get(complexFFT.real, j)),
         Mul(Get(complexFFT.imag, j), Get(complexFFT.imag, j)))

\* Math.max(a, b)
MathMax(a, b) == IF IsNum(a) /\ IsNum(b) THEN Max2(a, b) ELSE NaN

FloorMax == 0   \* useAudioProcessor.tsx 95: let maxMag = 1e-12

\* useAudioProcessor.tsx 103-106: for (j = 0; j < fftSize / 2; j++)
RECURSIVE MaxLoop(_, _, _, _)
MaxLoop(complexFFT, j, fftSize, maxMag) ==
    IF 2 * j < fftSize
    THEN MaxLoop(complexFFT, j + 1, fftSize, MathMax(maxMag, Hypot2(complexFFT, j)))
    ELSE maxMag

\* floor(10^(2m/51) * 10^6) for m = 1..16: the ratios of squared magnitudes at which
\* 255 + 51 * log10(mag / maxMag) passes an integer
Pow10Steps ==
    <<1094499, 1197929, 1311133, 1435035, 1570646, 1719072, 1881524, 2059327,
      2253933, 2466930, 2700054, 2955209, 3234475, 3540133, 3874675, 4240831>>

\* the least m with maxMag^2 / mag^2 <= 10^(2m/51): -floor(51 * log10(mag / maxMag))
Steps(magSq, maxSq) ==
    IF maxSq <= magSq THEN 0
    ELSE CHOOSE m \in 1..Len(Pow10Steps) :
            /\ maxSq * 1000000 <= magSq * Pow10Steps[m]
            /\ \A k \in 1..(m - 1) : maxSq * 1000000 > magSq * Pow10Steps[k]

\* useAudioProcessor.tsx 117-118: Math.floor(((db + 100) / 100) * 255) with
\* db = 20 * Math.log10(mag / maxMag + 1e-12); mag = 0 gives db = -240
Scaled255MutScale254(magSq, maxSq) ==
    IF ~IsNum(magSq) \/ ~IsNum(maxSq) THEN NaN
    ELSE IF magSq = 0 THEN 0 - 356
    ELSE 254 - Steps(magSq, maxSq)
Scaled255(magSq, maxSq) ==
    IF ~IsNum(magSq) \/ ~IsNum(maxSq) THEN NaN
    ELSE IF magSq = 0 THEN 0 - 357
    ELSE 255 - Steps(magSq, maxSq)

\* useAudioProcessor.tsx 118: Math.min(255, Math.max(0, v))
ClampMutNoFloor(v) == IF IsNum(v) THEN Min2(255, v) ELSE NaN
Clamp(v) == IF IsNum(v) THEN Min2(255, Max2(0, v)) ELSE NaN

\* a store into a Uint8Array: NaN is stored as 0, an integer modulo 256
ToUint8(v) == IF IsNum(v) THEN v % 256 ELSE 0

\* useAudioProcessor.tsx 114-120: new Uint8Array(fftSize / 2) has floor(fftSize / 2)
\* entries; a store past its end is dropped
magDbSlice(complexFFT, fftSize, maxMag) ==
    [j \in 1..(fftSize \div 2) |->
        ToUint8(Clamp(Scaled255(Hypot2(complexFFT, j - 1), maxMag)))]

\* the magnitudes the second pass computed for the entries of magDbSlice
Mags(complexFFT, fftSize) == [j \in 1..(fftSize \div 2) |-> Hypot2(complexFFT, j - 1)]

\* useAudioProcessor.tsx 97, 109: start + fftSize <= data.length
FrameFitsMutStrict(start, fftSize, length) == start + fftSize < length
FrameFits(start, fftSize, length) == start + fftSize <= length

\* useAudioProcessor.tsx 97, 109: start += hopSize
NextStartMutNoAdvance(start, hopSize) == start
NextStart(start, hopSize) == start + hopSize

\* A loop of computeSTFT is followed for at most MaxFrames frames: more than any
\* loop that ends runs, so a run that stops there is one whose loop does not end.
MaxFrames == MaxSignal + 2

\* computeSTFT is entered: lines 90-95
StftEnter ==
    /\ op = "input"
    /\ arg.kind = "stft"
    /\ op' = "computeSTFT"
    /\ result' = [status |-> "firstPass", start |-> 0, maxMag |-> FloorMax,
                  slices |-> << >>, starts |-> << >>, firstStarts |-> << >>,
                  mags |-> << >>, transforms |-> 0]
    /\ UNCHANGED <<arg, source, memoizedReversal, memoizedZeroBuffers, reversalComputed>>
    /\ UNCHANGED appVars

\* the caches after the frame's fft; a throw of fft leaves computeSTFT
StftFrame(complexFFT, locals) ==
    /\ result' = IF complexFFT.status = "ok" THEN locals
                 ELSE [result EXCEPT !.status = complexFFT.status]
    /\ memoizedReversal' = complexFFT.rev
    /\ memoizedZeroBuffers' = complexFFT.zero
    /\ reversalComputed' = complexFFT.computed
    /\ UNCHANGED <<op, arg, source>>
    /\ UNCHANGED appVars

\* useAudioProcessor.tsx 97-107: one frame of the first pass
FirstPassLocals(complexFFT) ==
    [result EXCEPT !.start = NextStart(@, arg.hopSize),
                   !.maxMag = MaxLoop(complexFFT, 0, arg.fftSize, @),
                   !.firstStarts = Append(@, result.start),
                   !.transforms = @ + 1]

StftFirstPassFrame ==
    /\ op = "computeSTFT"
    /\ result.status = "firstPass"
    /\ FrameFits(result.start, arg.fftSize, Len(arg.data))
    /\ Len(result.firstStarts) < MaxFrames
    /\ StftFrame(fft(Windowed(arg.data, result.start, arg.fftSize),
                     memoizedReversal, memoizedZeroBuffers),
                 FirstPassLocals(fft(Windowed(arg.data, result.start, arg.fftSize),
                                     memoizedReversal, memoizedZeroBuffers)))

\* useAudioProcessor.tsx 97, 109: the first loop ends, the second starts at 0
StftFirstPassEnd ==
    /\ op = "computeSTFT"
    /\ result.status = "firstPass"
    /\ ~FrameFits(result.start, arg.fftSize, Len(arg.data))
    /\ result' = [result EXCEPT !.status = "secondPass", !.start = 0]
    /\ UNCHANGED <<op, arg, source, memoizedReversal, memoizedZeroBuffers, reversalComputed>>
    /\ UNCHANGED appVars

\* useAudioProcessor.tsx 109-122: one frame of the second pass
SecondPassLocals(complexFFT) ==
    [result EXCEPT !.start = NextStart(@, arg.hopSize),
                   !.slices = Append(@, magDbSlice(complexFFT, arg.fftSize, result.maxMag)),
                   !.mags = Append(@, Mags(complexFFT, arg.fftSize)),
                   !.starts = Append(@, result.start),
                   !.transforms = @ + 1]

StftSecondPassFrame ==
    /\ op = "computeSTFT"
    /\ result.status = "secondPass"
    /\ FrameFits(result.start, arg.fftSize, Len(arg.data))
    /\ Len(result.starts) < MaxFrames
    /\ StftFrame(fft(Windowed(arg.data, result.start, arg.fftSize),
                     memoizedReversal, memoizedZeroBuffers),
                 SecondPassLocals(fft(Windowed(arg.data, result.start, arg.fftSize),
                                      memoizedReversal, memoizedZeroBuffers)))

\* useAudioProcessor.tsx 124: return slices
StftReturn ==
    /\ op = "computeSTFT"
    /\ result.status = "secondPass"
    /\ ~FrameFits(result.start, arg.fftSize, Len(arg.data))
    /\ result' = [result EXCEPT !.status = "ok"]
    /\ UNCHANGED <<op, arg, source, memoizedReversal, memoizedZeroBuffers, reversalComputed>>
    /\ UNCHANGED appVars

StftVals == {0 - 1, 0, 1}
StftInputs ==
    {[kind |-> "stft", data |-> d, fftSize |-> f, hopSize |-> h] :
        d \in UNION {[1..n -> StftVals] : n \in 0..MaxSignal},
        f \in 0..MaxFrame, h \in 0..MaxHop}

InitStft ==
    /\ memoizedReversal = EmptyMemo
    /\ memoizedZeroBuffers = EmptyMemo
    /\ reversalComputed = {}
    /\ op = "input"
    /\ arg \in StftInputs
    /\ source = NoSource
    /\ result = NoResult
    /\ InitApp

NextStft ==
    \/ StftEnter
    \/ StftFirstPassFrame
    \/ StftFirstPassEnd
    \/ StftSecondPassFrame
    \/ StftReturn

SpecStft == InitStft /\ [][NextStft]_vars

(***************************************************************************)
(* useAudioProcessor.tsx: the hook.  A call of handleFileUpload is three   *)
(* steps: up to the await of file.arrayBuffer(), from there to the await   *)
(* of decodeAudioData, and from there to its end; the calls that are at an *)
(* await are in uploads.  Samples are integers, the samples processAudio   *)
(* writes are the fractions ifft returns.  The spectra shown hold squared  *)
(* magnitudes.                                                             *)
(***************************************************************************)
\* the sample rate of the AudioContext created at useAudioProcessor.tsx 136-138
ContextRate == 4

\* the files a user picks, by what decodeAudioData makes of them: the samples of
\* each channel, or no channel for a file it rejects
Files == {"mono3", "stereo4", "corrupt"}

Channels(file) ==
    CASE file = "mono3" -> << <<1, 0, 0 - 1>> >>
      [] file = "stereo4" -> << <<1, 1, 0, 0>>, <<1, 0 - 1, 0, 2>> >>
      [] file = "corrupt" -> << >>

RECURSIVE ChannelSum(_, _, _)
ChannelSum(channels, ch, i) ==
    IF ch > Len(channels) THEN 0 ELSE channels[ch][i] + ChannelSum(channels, ch + 1, i)

\* useAudioProcessor.tsx 144-158; the sums of the files above are multiples of
\* the number of channels
MonoMix(channels) ==
    IF Len(channels) = 1 THEN channels[1]
    ELSE [i \in 1..Len(channels[1]) |-> ChannelSum(channels, 1, i) \div Len(channels)]

Float32Array(data) == [kind |-> "Float32Array", data |-> data]

RECURSIVE CeilPow2(_, _)
CeilPow2(length, p) == IF p >= length THEN p ELSE CeilPow2(length, 2 * p)

\* useAudioProcessor.tsx 64: Math.pow(2, Math.ceil(Math.log2(originalLength))), which
\* is 2^(-Infinity) = 0 for an empty signal
PaddedSize(originalLength) ==
    IF originalLength = 0 THEN 0 ELSE CeilPow2(originalLength, 1)

\* useAudioProcessor.tsx 66-67
Padded(signal, fftSize) ==
    [j \in 1..fftSize |-> IF j <= Len(signal) THEN signal[j] ELSE 0]

\* useAudioProcessor.tsx 35-38: the hook's own constructComplexArray
HookComplexArray(real) ==
    [kind |-> "complex", real |-> real, imag |-> [j \in 1..Len(real) |-> 0]]

\* useAudioProcessor.tsx 75-82, 221-229: for (i = 0; i < fftSize / 2; i++)
FFTData(spectrum, sampleRate, fftSize) ==
    [kind |-> "FFTData",
     frequencies |-> [i \in 1..((fftSize + 1) \div 2) |-> Frac((i - 1) * sampleRate, fftSize)],
     magnitudes |-> [i \in 1..((fftSize + 1) \div 2) |-> Hypot2(spectrum, i - 1)]]

\* computeSTFT(data) with the defaults 2048 and 512 (useAudioProcessor.tsx 89): no
\* frame fits a signal shorter than 2048 samples, and every signal here is
DefaultSlices(data) == << >>

\* useAudioProcessor.tsx 198: [...ranges].sort((a, b) => a[0] - b[0]), a stable sort
RECURSIVE SortedControls(_)
SortedControls(ranges) ==
    IF ranges = << >> THEN << >>
    ELSE LET last == ranges[Len(ranges)]
             rest == SortedControls(SubSeq(ranges, 1, Len(ranges) - 1))
             k == Cardinality({i \in 1..Len(rest) : rest[i][1] <= last[1]})
         IN SubSeq(rest, 1, k) \o <<last>> \o SubSeq(rest, k + 1, Len(rest))

\* useAudioProcessor.tsx 205: timeDomain.slice(0, originalLength)
TruncatedMutNoSlice(timeDomain, originalLength) == timeDomain
Truncated(timeDomain, originalLength) ==
    SubSeq(timeDomain, 1, Min2(originalLength, Len(timeDomain)))

Without1(seq, i) == SubSeq(seq, 1, i - 1) \o SubSeq(seq, i + 1, Len(seq))

\* handleFileUpload(file), useAudioProcessor.tsx 129-140: up to the first await
HandleFileUpload(file) ==
    /\ Len(uploads) < MaxUploads
    /\ op' = "handleFileUpload"
    /\ arg' = [kind |-> "file", name |-> file]
    /\ result' = [status |-> "pending"]
    /\ audioFile' = [kind |-> "File", name |-> file]
    /\ audioContextRef' = IF audioContextRef = Null
                          THEN [kind |-> "AudioContext", sampleRate |-> ContextRate]
                          ELSE audioContextRef
    /\ uploads' = Append(uploads, [file |-> file, at |-> "arrayBuffer"])
    /\ UNCHANGED <<memoizedReversal, memoizedZeroBuffers, reversalComputed, source>>
    /\ UNCHANGED <<storedComplexFFT, storedFFTData, audioData, outputData, inputFFT,
                   outputFFT, inputSlices, outputSlices, processed>>
    /\ UNCHANGED <<pageVars, pollVars, playVars>>

\* useAudioProcessor.tsx 140-141: the buffer is read and decodeAudioData is called on
\* the context, which throws into the catch of 176-179 when there is none
ArrayBufferRead(i) ==
    /\ i \in 1..Len(uploads)
    /\ uploads[i].at = "arrayBuffer"
    /\ uploads' = IF audioContextRef = Null THEN Without1(uploads, i)
                  ELSE [uploads EXCEPT ![i].at = "decodeAudioData"]
    /\ UNCHANGED <<storedComplexFFT, storedFFTData, audioFile, audioData, outputData,
                   inputFFT, outputFFT, inputSlices, outputSlices, audioContextRef,
                   processed>>
    /\ UNCHANGED <<moduleVars, pageVars, pollVars, playVars>>

\* useAudioProcessor.tsx 62-86 and 166-172, given the outcome of the fft of line 70
ComputedFFT(channelData, sampleRate, complexFFT) ==
    /\ storedComplexFFT' = [kind |-> "complex", real |-> complexFFT.real,
                            imag |-> complexFFT.imag]
    /\ storedFFTData' = FFTData(complexFFT, sampleRate, Len(complexFFT.real))
    /\ inputFFT' = storedFFTData'
    /\ outputFFT' = storedFFTData'
    /\ inputSlices' = DefaultSlices(channelData)
    /\ outputSlices' = DefaultSlices(channelData)
    /\ memoizedReversal' = complexFFT.rev
    /\ memoizedZeroBuffers' = complexFFT.zero
    /\ reversalComputed' = complexFFT.computed

\* useAudioProcessor.tsx 160-174, with channelData the mono mix of lines 144-158; line
\* 163 throws into the catch when there is no context
Loaded(channelData) ==
    /\ audioData' = Float32Array(channelData)
    /\ outputData' = Float32Array(channelData)
    /\ processed' = << >>
    /\ IF audioContextRef = Null
       THEN /\ result' = [status |-> "failed"]
            /\ UNCHANGED <<storedComplexFFT, storedFFTData, inputFFT, outputFFT,
                           inputSlices, outputSlices, memoizedReversal,
                           memoizedZeroBuffers, reversalComputed>>
       ELSE /\ result' = [status |-> "loaded"]
            /\ ComputedFFT(channelData, audioContextRef.sampleRate,
                   fft(HookComplexArray(Padded(channelData, PaddedSize(Len(channelData)))),
                       memoizedReversal, memoizedZeroBuffers))

\* useAudioProcessor.tsx 141-179: decodeAudioData settles
DecodeSettles(i) ==
    /\ i \in 1..Len(uploads)
    /\ uploads[i].at = "decodeAudioData"
    /\ uploads' = Without1(uploads, i)
    /\ op' = "handleFileUpload"
    /\ arg' = [kind |-> "file", name |-> uploads[i].file]
    /\ IF Channels(uploads[i].file) = << >>
       THEN /\ result' = [status |-> "failed"]
            /\ UNCHANGED <<storedComplexFFT, storedFFTData, audioData, outputData,
                           inputFFT, outputFFT, inputSlices, outputSlices, processed,
                           memoizedReversal, memoizedZeroBuffers, reversalComputed>>
       ELSE Loaded(MonoMix(Channels(uploads[i].file)))
    /\ UNCHANGED <<source, audioFile, audioContextRef>>
    /\ UNCHANGED <<pageVars, pollVars, playVars>>

\* the latest two range lists given to processAudio
Remembered(ranges) ==
    IF Len(processed) = 2 THEN <<processed[2], ranges>> ELSE Append(processed, ranges)

\* useAudioProcessor.tsx 200-229, given what equalizer returned
ProcessedOutput(out, originalLength, sampleRate) ==
    /\ result' = [status |-> out.status]
    /\ storedComplexFFT' = [kind |-> "complex", real |-> out.input.real,
                            imag |-> out.input.imag]
    /\ memoizedReversal' = out.rev
    /\ memoizedZeroBuffers' = out.zero
    /\ reversalComputed' = out.computed
    /\ IF out.status # "ok"
       THEN UNCHANGED <<outputData, outputSlices, outputFFT>>
       ELSE /\ outputData' = Float32Array(Truncated(out.timeDomain, originalLength))
            /\ outputSlices' = DefaultSlices(outputData'.data)
            /\ outputFFT' = FFTData(out.frequencyDomain, sampleRate,
                                    Len(out.frequencyDomain.real))

\* processAudio(ranges), useAudioProcessor.tsx 182-232
ProcessAudio(ranges) ==
    /\ op' = "processAudio"
    /\ arg' = [kind |-> "ranges", ranges |-> ranges]
    /\ IF audioData = Null \/ audioContextRef = Null \/ storedComplexFFT = Null
       THEN /\ result' = [status |-> "skipped"]
            /\ UNCHANGED <<storedComplexFFT, outputData, outputSlices, outputFFT,
                           processed, memoizedReversal, memoizedZeroBuffers,
                           reversalComputed>>
       ELSE /\ processed' = Remembered(ranges)
            /\ ProcessedOutput(equalizer(storedComplexFFT, SortedControls(ranges),
                                    audioContextRef.sampleRate,
                                    memoizedReversal, memoizedZeroBuffers),
                          Len(audioData.data), audioContextRef.sampleRate)
    /\ UNCHANGED <<source, storedFFTData, audioFile, audioData, inputFFT, inputSlices,
                   audioContextRef, uploads>>
    /\ UNCHANGED <<pageVars, pollVars, playVars>>

\* resetOutput(), useAudioProcessor.tsx 235-241
ResetOutput ==
    /\ op' = "resetOutput"
    /\ arg' = NoSource
    /\ result' = NoResult
    /\ IF audioData # Null /\ storedFFTData # Null
       THEN /\ outputData' = Float32Array(audioData.data)
            /\ outputFFT' = storedFFTData
            /\ outputSlices' = DefaultSlices(audioData.data)
       ELSE UNCHANGED <<outputData, outputFFT, outputSlices>>
    /\ UNCHANGED <<memoizedReversal, memoizedZeroBuffers, reversalComputed, source>>
    /\ UNCHANGED <<storedComplexFFT, storedFFTData, audioFile, audioData, inputFFT,
                   inputSlices, audioContextRef, uploads, processed>>
    /\ UNCHANGED <<pageVars, pollVars, playVars>>

\* the range lists the page hands to processAudio; the last is not sorted and its
\* ranges overlap in bin 3 of a four-bin transform
HookRangeLists ==
    {<< >>, << <<1, 1, 2>> >>, << <<2, 3, 0>>, <<0, 1, 2>> >>}

UploadStarts == \E file \in Files : HandleFileUpload(file)
UploadReads == \E i \in 1..MaxUploads : ArrayBufferRead(i)
UploadSettles == \E i \in 1..MaxUploads : DecodeSettles(i)
Processes == \E ranges \in HookRangeLists : ProcessAudio(ranges)

NextHook ==
    \/ UploadStarts
    \/ UploadReads
    \/ UploadSettles
    \/ Processes
    \/ ResetOutput

SpecHook == Init /\ [][NextHook]_vars

(***************************************************************************)
(* useAudioProcessor.tsx: playback.  A buffer source node is "playing"     *)
(* from start() on, "stopped" once stop() was called on it and "finished"  *)
(* once it has played its buffer to the end; in both cases its 'ended'     *)
(* event is then dispatched, after which it is "ended".  A node whose      *)
(* context was closed while it played is "closed".                         *)
(***************************************************************************)
\* AudioBufferSourceNode.stop()
Stopped(nodes, ref) ==
    IF ref # Null /\ nodes[ref.id] = "playing" THEN [nodes EXCEPT ![ref.id] = "stopped"]
    ELSE nodes

\* playAudio(), useAudioProcessor.tsx 244-289
PlayAudio ==
    /\ Len(sources) < MaxSources
    /\ op' = "playAudio"
    /\ arg' = NoSource
    /\ result' = NoResult
    /\ IF outputData = Null \/ audioContextRef = Null
       THEN UNCHANGED playVars
       ELSE /\ sources' = Append(Stopped(sources, sourceNodeRef), "playing")
            /\ sourceNodeRef' = [kind |-> "source", id |-> Len(sources')]
            /\ animationFrameRef' = [kind |-> "frame", id |-> Len(sources'), pending |-> TRUE]
            /\ isPlaying' = TRUE
    /\ UNCHANGED <<memoizedReversal, memoizedZeroBuffers, reversalComputed, source>>
    /\ UNCHANGED <<pageVars, pollVars, hookVars>>

\* stopAudio(), useAudioProcessor.tsx 291-295
StopAudio ==
    /\ op' = "stopAudio"
    /\ arg' = NoSource
    /\ result' = NoResult
    /\ audioContextRef' = Null
    /\ isPlaying' = FALSE
    /\ sources' = [i \in 1..Len(sources) |->
                      IF sources[i] = "playing" THEN "closed" ELSE sources[i]]
    /\ UNCHANGED <<sourceNodeRef, animationFrameRef>>
    /\ UNCHANGED <<memoizedReversal, memoizedZeroBuffers, reversalComputed, source>>
    /\ UNCHANGED <<storedComplexFFT, storedFFTData, audioFile, audioData, outputData,
                   inputFFT, outputFFT, inputSlices, outputSlices, uploads, processed>>
    /\ UNCHANGED <<pageVars, pollVars>>

\* a node has played its buffer to the end
SourceFinishes(i) ==
    /\ i \in 1..Len(sources)
    /\ sources[i] = "playing"
    /\ sources' = [sources EXCEPT ![i] = "finished"]
    /\ UNCHANGED <<isPlaying, sourceNodeRef, animationFrameRef>>
    /\ UNCHANGED <<moduleVars, pageVars, pollVars, hookVars>>

\* the 'ended' event of a node: source.onended, useAudioProcessor.tsx 285-288
SourceEnded(i) ==
    /\ i \in 1..Len(sources)
    /\ sources[i] \in {"stopped", "finished"}
    /\ sources' = [sources EXCEPT ![i] = "ended"]
    /\ isPlaying' = FALSE
    /\ UNCHANGED <<sourceNodeRef, animationFrameRef>>
    /\ UNCHANGED <<moduleVars, pageVars, pollVars, hookVars>>

\* the animation frame requested at useAudioProcessor.tsx 280, 283: update(); elapsed
\* has reached duration when the node has played its buffer to the end
AnimationFrame ==
    /\ animationFrameRef # Null
    /\ animationFrameRef.pending
    /\ IF sources[animationFrameRef.id] \in {"finished", "ended"}
       THEN /\ isPlaying' = FALSE
            /\ animationFrameRef' = [animationFrameRef EXCEPT !.pending = FALSE]
       ELSE UNCHANGED <<isPlaying, animationFrameRef>>
    /\ UNCHANGED <<sourceNodeRef, sources>>
    /\ UNCHANGED <<moduleVars, pageVars, pollVars, hookVars>>

BufferEnds == \E i \in 1..MaxSources : SourceFinishes(i)
EndedFires == \E i \in 1..MaxSources : SourceEnded(i)

NextPlayback ==
    \/ UploadStarts
    \/ UploadReads
    \/ UploadSettles
    \/ PlayAudio
    \/ StopAudio
    \/ BufferEnds
    \/ EndedFires
    \/ AnimationFrame

SpecPlayback == Init /\ [][NextPlayback]_vars

(***************************************************************************)
(* Equalizer.tsx: adding and removing ranges of the generic mode.          *)
(* The frequencies kept in frequencyRanges are integers; those of the      *)
(* range handed to handleAddFrequency are given in half Hz, so that        *)
(* Math.round has something to round.                                      *)
(***************************************************************************)
\* Math.round(h / 2) for h >= 0: halves round up
RoundHalves(h) == (h + 1) \div 2

\* twice (minFreq + maxFreq) / 2, the key of the sort of Equalizer.tsx 204-206
Midpoint2(r) == r.minFreq + r.maxFreq

\* where Array.prototype.sort, which is stable, leaves r among the sorted ones
InsertByMidpoint(sorted, r) ==
    SubSeq(sorted, 1, Cardinality({i \in 1..Len(sorted) : Midpoint2(sorted[i]) <= Midpoint2(r)}))
    \o <<r>>
    \o SubSeq(sorted,
              Cardinality({i \in 1..Len(sorted) : Midpoint2(sorted[i]) <= Midpoint2(r)}) + 1,
              Len(sorted))

RECURSIVE SortByMidpoint(_)
SortByMidpoint(ranges) ==
    IF ranges = << >> THEN << >>
    ELSE InsertByMidpoint(SortByMidpoint(SubSeq(ranges, 1, Len(ranges) - 1)),
                          ranges[Len(ranges)])

\* Equalizer.tsx 202-225: the loop 209-221 computes newMid and warns, and changes nothing
validateAndFixRanges(ranges) == SortByMidpoint(ranges)

\* Equalizer.tsx 234-238
Rounded(newRange) ==
    [minFreq |-> RoundHalves(newRange.minFreq),
     maxFreq |-> RoundHalves(newRange.maxFreq),
     gain |-> newRange.gain]

Gains(ranges) == [i \in 1..Len(ranges) |-> ranges[i].gain]

\* Array.prototype.filter((_, i) => i !== index)
Filtered(ranges, index) ==
    IF index \in 0..(Len(ranges) - 1)
    THEN SubSeq(ranges, 1, index) \o SubSeq(ranges, index + 2, Len(ranges))
    ELSE ranges

\* Equalizer.tsx 230-261
handleAddFrequency(newRange) ==
    /\ Len(frequencyRanges) < MaxRanges
    /\ op' = "handleAddFrequency"
    /\ arg' = newRange
    /\ IF Len(validateAndFixRanges(Append(frequencyRanges, Rounded(newRange))))
            = Len(frequencyRanges)
       THEN UNCHANGED pageVars
       ELSE /\ frequencyRanges'
                 = validateAndFixRanges(Append(frequencyRanges, Rounded(newRange)))
            /\ sliderValues' = Gains(frequencyRanges')
    /\ UNCHANGED <<memoizedReversal, memoizedZeroBuffers, reversalComputed, source, result>>
    /\ UNCHANGED <<pollVars, hookVars, playVars>>

\* Equalizer.tsx 293-309
handleRemoveFrequency(index) ==
    /\ op' = "handleRemoveFrequency"
    /\ arg' = index
    /\ IF Len(frequencyRanges) <= 2
       THEN UNCHANGED pageVars
       ELSE /\ frequencyRanges' = validateAndFixRanges(Filtered(frequencyRanges, index))
            /\ sliderValues' = Gains(frequencyRanges')
    /\ UNCHANGED <<memoizedReversal, memoizedZeroBuffers, reversalComputed, source, result>>
    /\ UNCHANGED <<pollVars, hookVars, playVars>>

\* ranges handed over by the dialog: around each default frequency, the default range
\* itself and the range whose lower edge lies half a Hz higher
NewRanges ==
    {[minFreq |-> 2 * (defaultFrequencies[i] - HalfWidth) + d,
      maxFreq |-> 2 * (defaultFrequencies[i] + HalfWidth),
      gain |-> g] : i \in 1..Len(defaultFrequencies), d \in 0..1, g \in 1..MaxGain}

AddFrequency == \E newRange \in NewRanges : handleAddFrequency(newRange)

RemoveFrequency == \E index \in 0..Len(frequencyRanges) : handleRemoveFrequency(index)

NextRanges ==
    \/ AddFrequency
    \/ RemoveFrequency

SpecRanges == Init /\ [][NextRanges]_vars

(***************************************************************************)
(* audioSeparationApi.ts: pollJobStatus(jobId, onUpdate, onComplete,       *)
(* onError, interval, maxAttempts).  poll is "fetching" while               *)
(* getJobStatus is awaited, "waiting" while the timer of setTimeout runs,  *)
(* "returned" when poll() has returned without scheduling another, and     *)
(* "rejected" when its promise is rejected.  A response is the status of   *)
(* the job, or "fetchError" when getJobStatus throws; throwing is the set  *)
(* of callbacks that throw when invoked in this round.                     *)
(***************************************************************************)
Responses == {"processing", "not_found", "completed", "failed", "fetchError"}
Throwing == SUBSET {"onUpdate", "onComplete", "onError"}

\* a callback is invoked inside the try block: it returns, or its throw is caught
Invoked(name, throwing, round, next) ==
    IF name \in throwing
    THEN [round EXCEPT !.poll = "catch", !.callbacks = Append(@, name)]
    ELSE [round EXCEPT !.poll = next, !.callbacks = Append(@, name)]

\* audioSeparationApi.ts 138-145
Counted(throwing, round, maxAttempts) ==
    IF round.attempts >= maxAttempts
    THEN Invoked("onError", throwing, round, "returned")
    ELSE [round EXCEPT !.poll = "waiting"]

\* audioSeparationApi.ts 128-145, after onUpdate returned
Dispatched(response, throwing, round, maxAttempts) ==
    IF response = "completed" THEN Invoked("onComplete", throwing, round, "returned")
    ELSE IF response = "failed" THEN Invoked("onError", throwing, round, "returned")
    ELSE Counted(throwing, [round EXCEPT !.attempts = @ + 1], maxAttempts)

\* audioSeparationApi.ts 124-145: the try block
Tried(response, throwing, round, maxAttempts) ==
    IF response = "fetchError" THEN [round EXCEPT !.poll = "catch"]
    ELSE IF "onUpdate" \in throwing THEN Invoked("onUpdate", throwing, round, "catch")
    ELSE Dispatched(response, throwing,
                    [round EXCEPT !.callbacks = Append(@, "onUpdate")], maxAttempts)

\* audioSeparationApi.ts 146-148: the catch block
Caught(throwing, round) ==
    IF round.poll # "catch" THEN round
    ELSE [round EXCEPT !.poll = IF "onError" \in throwing THEN "rejected" ELSE "returned",
                       !.callbacks = Append(@, "onError")]

\* audioSeparationApi.ts 113-152: pollJobStatus is called; poll() runs up to its await
PollJobStatus(maxAttempts) ==
    /\ poll = "idle"
    /\ op' = "pollJobStatus"
    /\ arg' = [kind |-> "poll", maxAttempts |-> maxAttempts]
    /\ poll' = "fetching"
    /\ attempts' = 0
    /\ fetches' = 1
    /\ callbacks' = << >>
    /\ UNCHANGED <<memoizedReversal, memoizedZeroBuffers, reversalComputed, source, result>>
    /\ UNCHANGED <<pageVars, hookVars, playVars>>

Round(response, throwing) ==
    Caught(throwing,
           Tried(response, throwing,
                 [poll |-> poll, attempts |-> attempts, callbacks |-> callbacks],
                 arg.maxAttempts))

\* getJobStatus settles and poll() runs to its end
PollResumes(response, throwing) ==
    /\ poll = "fetching"
    /\ poll' = Round(response, throwing).poll
    /\ attempts' = Round(response, throwing).attempts
    /\ callbacks' = Round(response, throwing).callbacks
    /\ UNCHANGED fetches
    /\ UNCHANGED <<moduleVars, pageVars, hookVars, playVars>>

\* the timer of audioSeparationApi.ts 145 fires: poll() runs up to its await
PollTimer ==
    /\ poll = "waiting"
    /\ poll' = "fetching"
    /\ fetches' = fetches + 1
    /\ UNCHANGED <<attempts, callbacks>>
    /\ UNCHANGED <<moduleVars, pageVars, hookVars, playVars>>

StartPolling == \E maxAttempts \in 1..MaxAttempts : PollJobStatus(maxAttempts)

JobStatusArrives == \E response \in Responses : \E throwing \in Throwing :
                        PollResumes(response, throwing)

NextPoll ==
    \/ StartPolling
    \/ JobStatusArrives
    \/ PollTimer

\* the event loop runs a settled promise's continuation and a due timer
SpecPoll == Init /\ [][NextPoll]_vars /\ WF_vars(NextPoll)

(***************************************************************************)
(* Reference definitions used by the properties.                           *)
(***************************************************************************)
IsPowerOfTwo(N) == N >= 1 /\ \E e \in 0..N : Pow2(e) = N

\* e^(-2*pi*i*q/4) and e^(+2*pi*i*q/4)
RootForward(q) ==
    CASE q % 4 = 0 -> <<1, 0>> [] q % 4 = 1 -> <<0, 0 - 1>>
      [] q % 4 = 2 -> <<0 - 1, 0>> [] q % 4 = 3 -> <<0, 1>>
RootInverse(q) ==
    CASE q % 4 = 0 -> <<1, 0>> [] q % 4 = 1 -> <<0, 1>>
      [] q % 4 = 2 -> <<0 - 1, 0>> [] q % 4 = 3 -> <<0, 0 - 1>>

\* the sums over n = 0..upto of x[n] * w^(k*n), w a primitive N-th root of unity, N | 4
RECURSIVE DftReal(_, _, _, _, _)
DftReal(x, k, N, upto, forward) ==
    IF upto < 0 THEN 0
    ELSE LET w == IF forward THEN RootForward((4 \div N) * k * upto)
                  ELSE RootInverse((4 \div N) * k * upto)
         IN DftReal(x, k, N, upto - 1, forward)
            + x.real[upto + 1] * w[1] - x.imag[upto + 1] * w[2]

RECURSIVE DftImag(_, _, _, _, _)
DftImag(x, k, N, upto, forward) ==
    IF upto < 0 THEN 0
    ELSE LET w == IF forward THEN RootForward((4 \div N) * k * upto)
                  ELSE RootInverse((4 \div N) * k * upto)
         IN DftImag(x, k, N, upto - 1, forward)
            + x.real[upto + 1] * w[2] + x.imag[upto + 1] * w[1]

\* the complex sequence a signal argument denotes
AsComplex(a) ==
    IF a.kind = "array" THEN [real |-> a.real, imag |-> [j \in 1..Len(a.real) |-> 0]]
    ELSE [real |-> a.real, imag |-> a.imag]

IsRealSignal(a) ==
    \/ a.kind = "array"
    \/ a.kind = "complex" /\ Len(a.imag) = Len(a.real) /\ \A j \in 1..Len(a.imag) : a.imag[j] = 0

Exact(x) == [j \in 1..Len(x) |-> <<x[j], 1>>]

DirectCall == source = NoSource

(***************************************************************************)
(* C1.  For every complex sequence x of power-of-two length N in {1,2,4},  *)
(* fft(x) returns, in natural order, for every bin k the DFT sum over n of *)
(* x[n] * e^(-2*pi*i*k*n/N).                                               *)
(***************************************************************************)
C1_FftIsDft ==
    (op = "fft" /\ Len(AsComplex(arg).real) = Len(AsComplex(arg).imag)
                /\ IsPowerOfTwo(Len(arg.real)))
    => /\ result.status = "ok"
       /\ Len(result.real) = Len(arg.real)
       /\ Len(result.imag) = Len(arg.real)
       /\ \A k \in 0..(Len(arg.real) - 1) :
            /\ result.real[k + 1] = DftReal(AsComplex(arg), k, Len(arg.real), Len(arg.real) - 1, TRUE)
            /\ result.imag[k + 1] = DftImag(AsComplex(arg), k, Len(arg.real), Len(arg.real) - 1, TRUE)

C1_Witness ==
    /\ op = "fft"
    /\ arg.kind = "complex"
    /\ arg.real = <<0, 1, 0, 0>>
    /\ arg.imag = <<0, 0, 1, 0>>
    /\ result.status = "ok"
    /\ result.real = <<1, 0, 0 - 1, 0>>
    /\ result.imag = <<1, 0 - 2, 1, 0>>

(***************************************************************************)
(* C2.  Round trip: for every real signal x of power-of-two length, the    *)
(* real part of ifft(fft(x)) equals x sample by sample, and so does the    *)
(* timeDomain of equalizer(fft(x), bands, Fs) when every band has gain 1.  *)
(***************************************************************************)
AllGainsOne(bands) == \A j \in 1..Len(bands) : bands[j][3] = 1

C2_RoundTrip ==
    /\ (op = "ifft" /\ ~DirectCall /\ IsRealSignal(source) /\ IsPowerOfTwo(Len(source.real)))
       => (result.status = "ok" /\ result.real = Exact(source.real))
    /\ (op = "equalizer" /\ ~DirectCall /\ IsRealSignal(source)
            /\ IsPowerOfTwo(Len(source.real)) /\ AllGainsOne(arg.bands))
       => (result.status = "ok" /\ result.timeDomain = Exact(source.real))

C2_Witness ==
    /\ op = "equalizer"
    /\ source.kind = "array"
    /\ source.real = <<1, 0 - 1, 0, 1>>
    /\ Len(arg.bands) = 1
    /\ arg.bands[1][3] = 1
    /\ arg.real = <<1, 1, 1, 1>>
    /\ arg.imag = <<0, 2, 0, 0 - 2>>
    /\ result.timeDomain = Exact(source.real)

(***************************************************************************)
(* C3.  For every complex sequence X of power-of-two length N, ifft(X)     *)
(* equals the inverse DFT (1/N) * sum over k of X[k] * e^(+2*pi*i*k*n/N)   *)
(* in both its real part and its imaginary part.                           *)
(***************************************************************************)
C3_IfftIsInverseDft ==
    (op = "ifft" /\ DirectCall /\ arg.kind = "complex"
        /\ Len(arg.real) = Len(arg.imag) /\ IsPowerOfTwo(Len(arg.real)))
    => /\ result.status = "ok"
       /\ \A n \in 0..(Len(arg.real) - 1) :
            /\ result.real[n + 1] =
                 Frac(DftReal(arg, n, Len(arg.real), Len(arg.real) - 1, FALSE), Len(arg.real))
            /\ result.imag[n + 1] =
                 Frac(DftImag(arg, n, Len(arg.real), Len(arg.real) - 1, FALSE), Len(arg.real))

(***************************************************************************)
(* C4.  fft fails with the invalid-length error for every input whose      *)
(* length N is not a power of two (N = 0, 3, 5, ...) and does not fail     *)
(* with that error for any N in {1, 2, 4, ...}.                            *)
(***************************************************************************)
C4_InvalidLengthIffNotPowerOfTwo ==
    op = "fft" => (result.status = "InvalidLength" <=> ~IsPowerOfTwo(Len(arg.real)))

(***************************************************************************)
(* C5.  fft never returns a result for a complex input whose real and imag *)
(* arrays have different lengths: the call fails with an error, and with   *)
(* the length-mismatch error when real.length is a power of two.           *)
(***************************************************************************)
C5_MismatchFails ==
    (op = "fft" /\ arg.kind = "complex" /\ Len(arg.real) # Len(arg.imag))
    => /\ result.status \in {"InvalidLength", "LengthMismatch"}
       /\ IsPowerOfTwo(Len(arg.real)) => result.status = "LengthMismatch"

C5_Witness ==
    /\ op = "fft"
    /\ arg.kind = "complex"
    /\ Len(arg.real) = 4
    /\ Len(arg.imag) = 0
    /\ result.status = "LengthMismatch"

(***************************************************************************)
(* C6.  ifft called with real and imag arrays of different lengths fails   *)
(* with the length-mismatch error, and ifft called with a length that is   *)
(* not a power of two fails with the invalid-length error.  (Stated here   *)
(* for N >= 1; the empty input is the case of C4.)                         *)
(***************************************************************************)
C6_IfftFailureModes ==
    (op = "ifft" /\ DirectCall /\ arg.kind = "complex")
    => /\ (Len(arg.real) # Len(arg.imag) /\ IsPowerOfTwo(Len(arg.real)))
            => result.status = "LengthMismatch"
       /\ (Len(arg.real) >= 1 /\ ~IsPowerOfTwo(Len(arg.real)))
            => result.status = "InvalidLength"

(***************************************************************************)
(* C7.  For every power-of-two N >= 1, bitReverseArray(N) is a bijection   *)
(* on 0..N-1 that maps each index to the index with the reversed           *)
(* log2(N)-bit binary representation; it is an involution and every value  *)
(* lies in 0..N-1.                                                         *)
(***************************************************************************)
RECURSIVE ReverseBits(_, _)
ReverseBits(n, bits) ==
    IF bits = 0 THEN 0
    ELSE (n % 2) * Pow2(bits - 1) + ReverseBits(n \div 2, bits - 1)

C7_BitReversalIsBijection ==
    (op = "bitReverseArray" /\ IsPowerOfTwo(arg.N))
    => /\ DOMAIN result.table = 0..(arg.N - 1)
       /\ \A n \in 0..(arg.N - 1) :
            /\ result.table[n] \in 0..(arg.N - 1)
            /\ result.table[n] = ReverseBits(n, Stages(arg.N))
            /\ result.table[result.table[n]] = n
       /\ \A n1, n2 \in 0..(arg.N - 1) : result.table[n1] = result.table[n2] => n1 = n2

C7_Witness ==
    /\ op = "bitReverseArray"
    /\ arg.N = 8
    /\ result.table[1] = 4
    /\ result.table[3] = 6
    /\ result.table[6] = 3

(***************************************************************************)
(* C8.  Across any sequence of bitReverseArray, fft and ifft calls the     *)
(* table for a given N is computed at most once: a call computes a table   *)
(* only for a length that was not cached and inserts it; a request for a   *)
(* cached N returns the cached table without recomputation; a table once   *)
(* inserted is never modified, replaced or removed.                        *)
(***************************************************************************)
TableStep ==
    /\ \A N \in DOMAIN memoizedReversal :
         /\ N \in DOMAIN memoizedReversal'
         /\ memoizedReversal'[N] = memoizedReversal[N]
         /\ N \notin reversalComputed'
    /\ reversalComputed' = DOMAIN memoizedReversal' \ DOMAIN memoizedReversal
    /\ (op' = "bitReverseArray" /\ arg'.N \in DOMAIN memoizedReversal)
         => result'.table = memoizedReversal[arg'.N]
    /\ (op' = "bitReverseArray" /\ arg'.N \notin DOMAIN memoizedReversal)
         => (reversalComputed' = {arg'.N} /\ result'.table = memoizedReversal'[arg'.N])

C8_TableComputedOnce == [][TableStep]_vars

C8_Witness ==
    /\ op = "fft"
    /\ result.status = "ok"
    /\ Len(arg.real) = 4
    /\ 4 \in DOMAIN memoizedReversal
    /\ memoizedReversal[4] = [n \in 0..3 |-> ReverseBits(n, 2)]
    /\ reversalComputed = {}

ZeroBufferStep ==
    /\ op' = "createBinGainsFromRanges"
         => UNCHANGED <<memoizedReversal, memoizedZeroBuffers>>
    /\ memoizedZeroBuffers' # memoizedZeroBuffers
         => /\ op' = "fft"
            /\ arg'.kind = "array"
            /\ Len(arg'.real) \notin DOMAIN memoizedZeroBuffers
            /\ DOMAIN memoizedZeroBuffers' = DOMAIN memoizedZeroBuffers \cup {Len(arg'.real)}
    /\ \A size \in DOMAIN memoizedZeroBuffers :
         /\ size \in DOMAIN memoizedZeroBuffers'
         /\ memoizedZeroBuffers'[size] = memoizedZeroBuffers[size]
    /\ \A size \in DOMAIN memoizedZeroBuffers' :
         memoizedZeroBuffers'[size] = [j \in 1..size |-> 0]
    /\ (op' = "fft" /\ arg'.kind = "array") => Len(arg'.real) \in DOMAIN memoizedZeroBuffers'

FloorOf(a, b) == CHOOSE q \in (0 - Abs(a) - 1)..(Abs(a) + 1) : q * b <= a /\ a < (q + 1) * b
CeilOf(a, b) == CHOOSE q \in (0 - Abs(a) - 1)..(Abs(a) + 1) : (q - 1) * b < a /\ a <= q * b

ExpectedGain(b, N, lo, hi, g) ==
    IF \/ (lo <= b /\ b <= hi)
       \/ \E d \in lo..hi : 0 < d /\ 2 * d < N /\ b = N - d
    THEN g ELSE 1

C10_SingleBandGains ==
    (op = "createBinGainsFromRanges" /\ Len(arg.bands) = 1)
    => /\ Len(result.binGains) = arg.fftSize
       /\ \A b \in 0..(arg.fftSize - 1) :
            result.binGains[b + 1] =
                ExpectedGain(b, arg.fftSize,
                    Max2(0, FloorOf(arg.bands[1][1] * arg.fftSize, arg.sampleRate)),
                    Min2(arg.fftSize - 1, CeilOf(arg.bands[1][2] * arg.fftSize, arg.sampleRate)),
                    arg.bands[1][3])

C10_Witness ==
    /\ op = "createBinGainsFromRanges"
    /\ arg.fftSize = 8
    /\ arg.sampleRate = 3
    /\ arg.bands = << <<1, 1, 2>> >>
    /\ result.binGains = <<1, 1, 2, 2, 1, 2, 2, 1>>

(***************************************************************************)
(* C11.  For every N, Fs and list of bands, bands reaching above Fs/2 and  *)
(* overlapping bands included, the vector g returned by                    *)
(* createBinGainsFromRanges has g[b] = g[N-b] for every 0 < b < N/2.       *)
(* A band whose range holds a bin above N/2 writes that bin directly and   *)
(* not its mirror: equalizer.ts 167 mirrors only from below N/2.           *)
(***************************************************************************)
C11_GainsAreSymmetric ==
    op = "createBinGainsFromRanges"
    => \A b \in 1..(arg.fftSize - 1) :
          2 * b < arg.fftSize
          => Get(result.binGains, b) = Get(result.binGains, arg.fftSize - b)

(***************************************************************************)
(* C12.  Overlap is resolved last-write-wins per bin: the gain of each bin *)
(* is the gain of the last band in list order that writes the bin,         *)
(* directly or through the mirror N-b, and 1 if no band writes it.         *)
(***************************************************************************)
\* band writes bin b: b is in its bin range or the mirror of a bin of the range
\* that lies strictly between 0 and N/2
Writes(band, b, N, Fs) ==
    \E d \in Max2(0, FloorOf(band[1] * N, Fs))..Min2(N - 1, CeilOf(band[2] * N, Fs)) :
        b = d \/ (0 < d /\ 2 * d < N /\ b = N - d)

Writers(bands, b, N, Fs) == {j \in 1..Len(bands) : Writes(bands[j], b, N, Fs)}

LastWriterGain(bands, b, N, Fs) ==
    IF Writers(bands, b, N, Fs) = {} THEN 1
    ELSE bands[CHOOSE j \in Writers(bands, b, N, Fs) :
                 \A k \in Writers(bands, b, N, Fs) : k <= j][3]

C12_LastWriteWins ==
    op = "createBinGainsFromRanges"
    => /\ Len(result.binGains) = arg.fftSize
       /\ \A b \in 0..(arg.fftSize - 1) :
            result.binGains[b + 1] =
                LastWriterGain(arg.bands, b, arg.fftSize, arg.sampleRate)

\* bins 5 and 6 are written directly by the first band and through the mirrors of
\* bins 3 and 2 by the second
C12_Witness ==
    /\ op = "createBinGainsFromRanges"
    /\ arg.fftSize = 8
    /\ arg.sampleRate = 3
    /\ arg.bands = << <<1, 2, 2>>, <<1, 1, 0>> >>
    /\ result.binGains = <<1, 1, 0, 0, 2, 0, 0, 1>>

(***************************************************************************)
(* C13.  A single-frequency control (minHz = maxHz = f) is mapped by       *)
(* rounding: createBinGains changes exactly the bin round(f*N/Fs) and      *)
(* leaves every other bin at 1, also when f*N/Fs is not an integer.        *)
(* createBinGains (equalizer.ts 181-188) hands the band (f, f, gain) to    *)
(* createBinGainsFromRanges, which takes floor and ceiling and mirrors.    *)
(***************************************************************************)
\* Math.round(a / b) for b > 0: the floor of a/b + 1/2
RoundOf(a, b) == FloorOf(2 * a + b, 2 * b)

C13_SingleFrequencyRounds ==
    (op = "createBinGains" /\ Len(arg.controls) = 1)
    => /\ Len(result.binGains) = arg.fftSize
       /\ \A b \in 0..(arg.fftSize - 1) :
            result.binGains[b + 1] =
                IF b = RoundOf(arg.controls[1][1] * arg.fftSize, arg.sampleRate)
                THEN arg.controls[1][2] ELSE 1

(***************************************************************************)
(* C14.  A band whose converted range is degenerate (binMin > binMax: its  *)
(* maxHz is below 0, or its minHz is at or above Fs) is skipped without an *)
(* error: the call returns, and the vector is the one the list without     *)
(* that band gives.                                                        *)
(***************************************************************************)
Degenerate(band, N, Fs) ==
    Max2(0, FloorOf(band[1] * N, Fs)) > Min2(N - 1, CeilOf(band[2] * N, Fs))

Without(bands, j) ==
    [k \in 1..(Len(bands) - 1) |-> IF k < j THEN bands[k] ELSE bands[k + 1]]

C14_DegenerateBandSkipped ==
    op = "createBinGainsFromRanges"
    => \A j \in 1..Len(arg.bands) :
          Degenerate(arg.bands[j], arg.fftSize, arg.sampleRate)
          => /\ result.status = "ok"
             /\ Len(result.binGains) = arg.fftSize
             /\ \A b \in 0..(arg.fftSize - 1) :
                  result.binGains[b + 1] =
                      LastWriterGain(Without(arg.bands, j), b,
                                     arg.fftSize, arg.sampleRate)

\* minHz = 4 is above Fs = 3: the first band is skipped, the second is applied
C14_Witness ==
    /\ op = "createBinGainsFromRanges"
    /\ arg.fftSize = 8
    /\ arg.sampleRate = 3
    /\ arg.bands = << <<4, 4, 0>>, <<1, 1, 2>> >>
    /\ Degenerate(arg.bands[1], 8, 3)
    /\ result.binGains = <<1, 1, 2, 2, 1, 2, 2, 1>>

(***************************************************************************)
(* C15.  For a spectrum X of power-of-two length N, equalizer(X, bands,    *)
(* Fs) returns a frequencyDomain of length N with real[i] = X.real[i] *    *)
(* gain[i] and imag[i] = X.imag[i] * gain[i], gain being the vector of the *)
(* band-to-bin mapping, and a timeDomain equal to the real part of the     *)
(* inverse transform of frequencyDomain.                                   *)
(***************************************************************************)
\* X scaled bin by bin by the gain of the last band that writes the bin
Scaled(X, bands, Fs) ==
    [real |-> [i \in 1..Len(X.real) |->
                 X.real[i] * LastWriterGain(bands, i - 1, Len(X.real), Fs)],
     imag |-> [i \in 1..Len(X.real) |->
                 X.imag[i] * LastWriterGain(bands, i - 1, Len(X.real), Fs)]]

C15_EqualizerScalesEveryBin ==
    (op = "equalizer" /\ Len(arg.real) = Len(arg.imag) /\ IsPowerOfTwo(Len(arg.real)))
    => /\ result.status = "ok"
       /\ result.frequencyDomain = Scaled(arg, arg.bands, arg.sampleRate)
       /\ Len(result.timeDomain) = Len(arg.real)
       /\ \A n \in 0..(Len(arg.real) - 1) :
            result.timeDomain[n + 1] =
                Frac(DftReal(result.frequencyDomain, n, Len(arg.real),
                             Len(arg.real) - 1, FALSE),
                     Len(arg.real))

\* the second band overrides the first in bins 1 and 3
C15_Witness ==
    /\ op = "equalizer"
    /\ DirectCall
    /\ arg.real = <<1, 1, 0, 1>>
    /\ arg.imag = <<0, 1, 1, 0>>
    /\ arg.bands = << <<0, 4, 2>>, <<1, 1, 0>> >>
    /\ arg.sampleRate = 4
    /\ result.frequencyDomain = [real |-> <<2, 0, 0, 0>>, imag |-> <<0, 0, 2, 0>>]
    /\ result.timeDomain = << <<1, 2>>, <<1, 2>>, <<1, 2>>, <<1, 2>> >>

IsMute(bands, Fs) == Fs % 2 = 0 /\ bands = << <<0, Fs \div 2, 0>> >>

Zeros(N) == [j \in 1..N |-> 0]

C17_MuteBandSilences ==
    /\ (op = "createBinGainsFromRanges" /\ IsPowerOfTwo(arg.fftSize)
            /\ IsMute(arg.bands, arg.sampleRate))
       => result.binGains = Zeros(arg.fftSize)
    /\ (op = "equalizer" /\ Len(arg.real) = Len(arg.imag) /\ IsPowerOfTwo(Len(arg.real))
            /\ IsMute(arg.bands, arg.sampleRate))
       => /\ result.status = "ok"
          /\ result.frequencyDomain.real = Zeros(Len(arg.real))
          /\ result.frequencyDomain.imag = Zeros(Len(arg.real))
          /\ result.timeDomain = Exact(Zeros(Len(arg.real)))

\* the spectrum of x = (1, 0, 0, 1) muted
C17_Witness ==
    /\ op = "equalizer"
    /\ source.kind = "array"
    /\ source.real = <<1, 0, 0, 1>>
    /\ arg.real = <<2, 1, 0, 1>>
    /\ arg.imag = <<0, 1, 0, 0 - 1>>
    /\ IsMute(arg.bands, arg.sampleRate)
    /\ result.timeDomain = << <<0, 1>>, <<0, 1>>, <<0, 1>>, <<0, 1>> >>

(***************************************************************************)
(* C18.  For every signal length L, frame length F and hop H >= 1,         *)
(* computeSTFT returns floor((L-F)/H)+1 frames when L >= F and 0 frames,   *)
(* with no transform run and no error, when L < F; every frame has F/2     *)
(* entries (the whole part of F/2) and frame j starts at sample j*H.       *)
(* For an F that is not a power of two and L >= F the first frame's fft    *)
(* throws.                                                                 *)
(***************************************************************************)
\* computeSTFT has returned or thrown
StftDone == op = "computeSTFT" /\ result.status \notin {"firstPass", "secondPass"}

FramesAsClaimed ==
    /\ result.status = "ok"
    /\ IF Len(arg.data) >= arg.fftSize
       THEN Len(result.slices) = FloorOf(Len(arg.data) - arg.fftSize, arg.hopSize) + 1
       ELSE Len(result.slices) = 0 /\ result.transforms = 0
    /\ Len(result.starts) = Len(result.slices)
    /\ \A j \in 1..Len(result.slices) :
          /\ Len(result.slices[j]) = arg.fftSize \div 2
          /\ result.starts[j] = (j - 1) * arg.hopSize

C18_FrameCount == (StftDone /\ arg.hopSize >= 1) => FramesAsClaimed

(***************************************************************************)
(* C18, amended.  The same for every frame length F that is a power of     *)
(* two, and for every F when L < F.                                        *)
(***************************************************************************)
C18_FrameCountForPowerOfTwo ==
    (StftDone /\ arg.hopSize >= 1
              /\ (IsPowerOfTwo(arg.fftSize) \/ Len(arg.data) < arg.fftSize))
    => FramesAsClaimed

\* L = 5, F = 2, H = 2: frames at 0 and 2, sample 4 is left over
C18_Witness ==
    /\ StftDone
    /\ Len(arg.data) = 5
    /\ arg.fftSize = 2
    /\ arg.hopSize = 2
    /\ result.status = "ok"
    /\ Len(result.slices) = 2
    /\ result.starts = <<0, 2>>
    /\ result.transforms = 4

(***************************************************************************)
(* C19.  Every value stored in every STFT frame is an integer in 0..255:   *)
(* the map of dB from [-100, 0] to [0, 255] is clamped at both ends, so a  *)
(* magnitude more than 100 dB below the maximum (here: the magnitude 0, at *)
(* -240 dB) is stored as 0, a magnitude equal to the maximum as 255, and a *)
(* larger magnitude never gets a smaller value.                            *)
(***************************************************************************)
\* the pairs <<frame, bin>> of the returned frames
Entries ==
    {e \in (1..Len(result.slices)) \X (1..(arg.fftSize \div 2)) :
        e[2] <= Len(result.slices[e[1]])}

\* the first pass found a magnitude above the floor of maxMag
AboveFloor == IsNum(result.maxMag) /\ result.maxMag # FloorMax

C19_BytesInRange ==
    (StftDone /\ result.status = "ok")
    => \A e \in Entries :
          /\ result.slices[e[1]][e[2]] \in 0..255
          /\ result.mags[e[1]][e[2]] = 0 => result.slices[e[1]][e[2]] = 0
          /\ (AboveFloor /\ result.mags[e[1]][e[2]] = result.maxMag)
             => result.slices[e[1]][e[2]] = 255
          /\ \A f \in Entries :
                result.mags[e[1]][e[2]] <= result.mags[f[1]][f[2]]
                => result.slices[e[1]][e[2]] <= result.slices[f[1]][f[2]]

\* magnitudes 6, sqrt(18), 0 and sqrt(18) against the maximum 6: 0 dB, -3.01 dB,
\* -240 dB
C19_Witness ==
    /\ StftDone
    /\ arg.data = <<0, 1, 1, 0 - 1, 0>>
    /\ arg.fftSize = 4
    /\ arg.hopSize = 1
    /\ result.status = "ok"
    /\ result.mags = << <<36, 18>>, <<0, 18>> >>
    /\ result.slices = << <<255, 247>>, <<0, 247>> >>

(***************************************************************************)
(* C20.  For every signal that yields at least one frame, the all-zero     *)
(* signal included, the frame that contains the largest magnitude of the   *)
(* first pass contains at least one byte equal to 255.                     *)
(* For the all-zero signal maxMag stays at its floor and every magnitude   *)
(* is 0, at -240 dB of the floor.                                          *)
(***************************************************************************)
\* frame j holds a magnitude that no magnitude of any frame exceeds
HoldsLargest(j) ==
    \E e \in Entries :
        /\ e[1] = j
        /\ \A f \in Entries : result.mags[f[1]][f[2]] <= result.mags[e[1]][e[2]]

Has255(j) == \E k \in 1..Len(result.slices[j]) : result.slices[j][k] = 255

IsConstant(a) == IsRealSignal(a) /\ \A j \in 1..Len(a.real) : a.real[j] = a.real[1]

C22_ConstantSignalHasOnlyDc ==
    (op = "fft" /\ IsPowerOfTwo(Len(arg.real)) /\ IsConstant(arg))
    => /\ result.status = "ok"
       /\ result.real = [k \in 1..Len(arg.real) |->
                           IF k = 1 THEN Len(arg.real) * arg.real[1] ELSE 0]
       /\ result.imag = [k \in 1..Len(arg.real) |-> 0]

C22_Witness ==
    /\ op = "fft"
    /\ arg.kind = "array"
    /\ arg.real = <<0 - 1, 0 - 1, 0 - 1, 0 - 1>>
    /\ result.real = <<0 - 4, 0, 0, 0>>
    /\ result.imag = <<0, 0, 0, 0>>

(***************************************************************************)
(* C23.  For a power-of-two length N, fft runs exactly log2(N) butterfly   *)
(* stages.  Within each stage the butterflies are pairs (evenIndex,        *)
(* oddIndex = evenIndex + stage / 2) that partition 0..N-1: every index is *)
(* read exactly once and written exactly once in the stage, the two reads  *)
(* of a butterfly come before its two writes, and no index outside 0..N-1  *)
(* is touched.                                                             *)
(***************************************************************************)
Positions(accesses, access) == {p \in 1..Len(accesses) : accesses[p] = access}

\* the b-th butterfly of a stage reads its pair and only then writes it
PairAt(accesses, b, half) ==
    /\ accesses[4 * b + 1][1] = "read"
    /\ accesses[4 * b + 2] = <<"read", accesses[4 * b + 1][2] + half>>
    /\ {accesses[4 * b + 3], accesses[4 * b + 4]}
           = {<<"write", accesses[4 * b + 1][2]>>,
              <<"write", accesses[4 * b + 1][2] + half>>}

StagePartitions(accesses, N, currN) ==
    /\ Len(accesses) = 2 * N
    /\ \A p \in 1..Len(accesses) : accesses[p][2] \in 0..(N - 1)
    /\ \A i \in 0..(N - 1) :
           /\ Cardinality(Positions(accesses, <<"read", i>>)) = 1
           /\ Cardinality(Positions(accesses, <<"write", i>>)) = 1
    /\ \A b \in 0..((N \div 2) - 1) : PairAt(accesses, b, currN \div 2)

C23_StagesPartitionIndices ==
    (op = "fft" /\ result.status = "ok" /\ IsPowerOfTwo(Len(arg.real)))
    => /\ Pow2(Len(result.log)) = Len(arg.real)
       /\ \A n \in 1..Len(result.log) :
              StagePartitions(result.log[n], Len(arg.real), Pow2(n))

C23_Witness ==
    /\ op = "fft"
    /\ Len(arg.real) = 4
    /\ result.status = "ok"
    /\ result.log =
         << << <<"read", 0>>, <<"read", 1>>, <<"write", 1>>, <<"write", 0>>,
               <<"read", 2>>, <<"read", 3>>, <<"write", 3>>, <<"write", 2>> >>,
            << <<"read", 0>>, <<"read", 2>>, <<"write", 2>>, <<"write", 0>>,
               <<"read", 1>>, <<"read", 3>>, <<"write", 3>>, <<"write", 1>> >> >>

(***************************************************************************)
(* C25.  The result of fft and of ifft is the same whether the permutation *)
(* cache and the zero-buffer cache are empty or hold what any earlier      *)
(* sequence of calls left in them, and every memoized zero buffer stays    *)
(* all zeros.                                                              *)
(***************************************************************************)
SameResult(out, fresh) ==
    /\ out.status = fresh.status
    /\ out.real = fresh.real
    /\ out.imag = fresh.imag

C25_ResultIndependentOfCaches ==
    /\ op = "fft" => SameResult(result, fft(arg, EmptyMemo, EmptyMemo))
    /\ op = "ifft" => SameResult(result, ifft(arg, EmptyMemo, EmptyMemo))
    /\ \A size \in DOMAIN memoizedZeroBuffers :
           memoizedZeroBuffers[size] = [j \in 1..size |-> 0]

\* an fft of a number[] that found its permutation and, with another size, the
\* zero-buffer cache populated, and whose result has a non-zero imaginary part
C25_Witness ==
    /\ op = "fft"
    /\ arg.kind = "array"
    /\ Len(arg.real) = 4
    /\ result.status = "ok"
    /\ reversalComputed = {}
    /\ DOMAIN memoizedZeroBuffers = {0, 3, 4}
    /\ \E j \in 1..4 : result.imag[j] # 0

(***************************************************************************)
(* C30.  computeSTFT terminates for every finite signal length L, every    *)
(* frame length F and every hop H: both framing passes reach a start with  *)
(* start + F > L after finitely many steps, and they visit exactly the     *)
(* same start positions 0, H, 2H, ... in the same order.                   *)
(* A pass ends after finitely many steps when every frame brings start     *)
(* closer to the end: L - F - start is at least 0 before a frame and       *)
(* smaller after it.                                                       *)
(***************************************************************************)
InPass == op = "computeSTFT" /\ result.status \in {"firstPass", "secondPass"}

Remaining(locals) == Len(arg.data) - arg.fftSize - locals.start

SameStarts ==
    /\ result.firstStarts = result.starts
    /\ \A j \in 1..Len(result.starts) : result.starts[j] = (j - 1) * arg.hopSize

\* a frame of the pass that brings start closer to the end
FrameAdvances ==
    /\ result'.status = result.status
    /\ Remaining(result) >= 0
    /\ Remaining(result') < Remaining(result)

\* the pass has reached start + F > L; after the second one, computeSTFT returns
PassEnds ==
    /\ Remaining(result) < 0
    /\ \/ result.status = "firstPass" /\ result'.status = "secondPass"
       \/ result.status = "secondPass" /\ result'.status = "ok" /\ SameStarts'

C30_Terminates == [][InPass => (FrameAdvances \/ PassEnds)]_vars

(***************************************************************************)
(* C30, amended.  For every hop H >= 1, every finite L and every F,        *)
(* computeSTFT terminates: it returns after both passes have reached       *)
(* start + F > L, having visited exactly the same start positions 0, H,    *)
(* 2H, ... in the same order, or, when F is not a power of two (nor 0) and *)
(* L >= F, it ends with the throw of fft in the first frame.               *)
(***************************************************************************)
ThrowsInFirstFrame ==
    /\ result'.status \notin {"firstPass", "secondPass", "ok"}
    /\ ~IsPowerOfTwo(arg.fftSize)
    /\ arg.fftSize # 0
    /\ Len(arg.data) >= arg.fftSize
    /\ result.status = "firstPass"
    /\ result.firstStarts = << >>

C30_TerminatesForPositiveHop ==
    [][(InPass /\ arg.hopSize >= 1)
       => (FrameAdvances \/ PassEnds \/ ThrowsInFirstFrame)]_vars

\* L = 5, F = 2, H = 1: both passes visited 0, 1, 2, 3
C30_Witness ==
    /\ op = "computeSTFT"
    /\ result.status = "ok"
    /\ Len(arg.data) = 5
    /\ arg.fftSize = 2
    /\ arg.hopSize = 1
    /\ result.firstStarts = <<0, 1, 2, 3>>
    /\ result.starts = <<0, 1, 2, 3>>
    /\ result.transforms = 8

(***************************************************************************)
(* C24.  After any sequence of handleAddFrequency and                      *)
(* handleRemoveFrequency calls on the generic-mode range list,             *)
(* frequencyRanges is sorted by midpoint and its midpoints are pairwise    *)
(* distinct; adding a range equal to an existing one does not leave two    *)
(* ranges with the same midpoint in the list.                              *)
(***************************************************************************)
SortedByMidpoint ==
    \A i \in 1..(Len(frequencyRanges) - 1) :
        Midpoint2(frequencyRanges[i]) <= Midpoint2(frequencyRanges[i + 1])

DistinctMidpoints ==
    \A i \in 1..Len(frequencyRanges) : \A j \in 1..Len(frequencyRanges) :
        i # j => Midpoint2(frequencyRanges[i]) # Midpoint2(frequencyRanges[j])

C24_SortedAndUniqueMidpoints == SortedByMidpoint /\ DistinctMidpoints

(***************************************************************************)
(* C29.  For every sequence of job-status responses (processing,           *)
(* not_found, completed, failed, or a fetch error) and callbacks that may  *)
(* throw, pollJobStatus performs at most maxAttempts status fetches,       *)
(* invokes at most one terminal callback (onComplete or onError) and that  *)
(* at most once, and schedules no further fetch after a terminal callback. *)
(* (That it eventually invokes a terminal callback is C29_PollingEnds.)    *)
(***************************************************************************)
TerminalCallbacks ==
    {i \in 1..Len(callbacks) : callbacks[i] \in {"onComplete", "onError"}}

C29_AtMostOneTerminalCallback ==
    op = "pollJobStatus"
    => /\ fetches <= arg.maxAttempts
       /\ Cardinality(TerminalCallbacks) <= 1
       /\ TerminalCallbacks # {} => poll \in {"returned", "rejected"}

\* the liveness part of C29: a terminal callback is eventually invoked
C29_PollingEnds == (op = "pollJobStatus") ~> (TerminalCallbacks # {})

(***************************************************************************)
(* C21.  After any sequence of uploads, processAudio calls and resetOutput *)
(* calls, outputData has the length of audioData, although the transform   *)
(* runs on the input padded with zeros to the smallest power of two not    *)
(* below its length and its result is cut back.                            *)
(***************************************************************************)
C21_OutputLengthMatches ==
    audioData # Null
    => /\ outputData # Null
       /\ Len(outputData.data) = Len(audioData.data)

\* three samples, transformed as four, equalized and cut back to three
C21_Witness ==
    /\ op = "processAudio"
    /\ result.status = "ok"
    /\ arg.ranges = << <<1, 1, 2>> >>
    /\ Len(audioData.data) = 3
    /\ Len(storedComplexFFT.real) = 4
    /\ Len(outputData.data) = 3

(***************************************************************************)
(* C26.  processAudio does not accumulate: for the loaded signal,          *)
(* outputData and outputFFT after processAudio(B) are what B makes of the  *)
(* spectrum of the signal, whatever processAudio and resetOutput calls     *)
(* came before, because the stored spectrum is not modified between        *)
(* uploads.                                                                *)
(***************************************************************************)
AsSpectrum(complexFFT) ==
    [kind |-> "complex", real |-> complexFFT.real, imag |-> complexFFT.imag]

\* the spectrum of the loaded signal, computed anew
SpectrumOf(data) ==
    AsSpectrum(fft(HookComplexArray(Padded(data, PaddedSize(Len(data)))),
                  EmptyMemo, EmptyMemo))

\* what equalizer makes of that spectrum with the ranges of the last call
Anew ==
    equalizer(SpectrumOf(audioData.data), SortedControls(arg.ranges),
              audioContextRef.sampleRate, EmptyMemo, EmptyMemo)

C26_ProcessAudioDoesNotAccumulate ==
    (op = "processAudio" /\ result.status = "ok")
    => /\ storedComplexFFT = SpectrumOf(audioData.data)
       /\ outputData = Float32Array(Truncated(Anew.timeDomain, Len(audioData.data)))
       /\ outputFFT = FFTData(Anew.frequencyDomain, audioContextRef.sampleRate,
                              Len(Anew.frequencyDomain.real))

\* the second of two processAudio calls with different range lists on four samples
C26_Witness ==
    /\ op = "processAudio"
    /\ result.status = "ok"
    /\ Len(audioData.data) = 4
    /\ processed = << << <<1, 1, 2>> >>, << <<2, 3, 0>>, <<0, 1, 2>> >> >>

(***************************************************************************)
(* C27.  Under every interleaving of handleFileUpload calls (two uploads   *)
(* whose decodes overlap and finish in either order, or an upload whose    *)
(* decode fails), once all uploads have settled, audioFile, audioData,     *)
(* inputFFT and the stored spectrum derive from the same file.             *)
(***************************************************************************)
DerivedFrom(file) ==
    /\ Channels(file) # << >>
    /\ audioData = Float32Array(MonoMix(Channels(file)))
    /\ storedComplexFFT = SpectrumOf(audioData.data)
    /\ inputFFT = FFTData(storedComplexFFT, audioContextRef.sampleRate,
                          Len(storedComplexFFT.real))

C27_SameFileOnceSettled ==
    (uploads = << >> /\ audioData # Null) => DerivedFrom(audioFile.name)

====
